---- MODULE Spec2Model ----
(***************************************************************************)
(* A model of the game jam bot: the persistent state store (state.rs,      *)
(* theme.rs), the command handlers that use it (channel.rs, theme.rs,      *)
(* reaction.rs) and the event loop that runs them (main.rs).               *)
(*                                                                         *)
(* A string is a sequence of characters, each character a TLA+ string      *)
(* ("a", "-", or a name such as "BACKTICK").  A HashMap is a function      *)
(* whose DOMAIN is the set of keys present.                                *)
(***************************************************************************)
EXTENDS Integers, Sequences, FiniteSets, TLC

(***************************************************************************)
(* Bounds and input sets                                                   *)
(***************************************************************************)
MaxUser == 2
MaxChannelId == 3
MaxMessageId == 2

Users == 1..MaxUser
\* identifiers the chat platform hands out for created channels
ChannelIds == 1..MaxChannelId
\* channels and messages an organizer can refer to in setroleassign
MessageIds == 1..MaxMessageId
MsgChannelIds == 1..MaxMessageId

\* contents of private messages (theme submissions)
Contents ==
    { <<>>, <<"a">>, <<" ", "a">>, <<"a", " ", "b">> }

\* argument lists of removechannels: nothing, no mention, a mention of a user
RemoveArgs ==
    { <<>>, << <<"x">> >> } \cup { << <<"<", "@", "!", d, ">">> >> : d \in {"1", "2", "3"} }

\* argument lists of setroleassign
RoleAssignArgs ==
    { <<>>,
      << <<"<", "#", "1", ">">>, <<"1">> >>,
      << <<"<", "#", "2", ">">>, <<"2">> >>,
      << <<"x">>, <<"1">> >>,
      << <<"<", "#", "1", ">">>, <<"x">> >> }

\* argument lists of createchannels / renamechannels (tokens hold no whitespace)
RestCommands ==
    { <<>>, << <<"a">> >>, << <<"-", "-">> >>, << <<"a">>, <<"BACKTICK">> >> }

(***************************************************************************)
(* Strings                                                                 *)
(***************************************************************************)
\* u8::is_ascii_whitespace: space, tab, line feed, form feed, carriage return
AsciiWhitespace == {" ", "TAB", "LF", "FF", "CR"}

IsAsciiWhitespace(c) == c \in AsciiWhitespace

\* str::split_ascii_whitespace().count(): the number of maximal runs of
\* non-whitespace characters
RECURSIVE CountTokens(_, _)
CountTokens(s, inToken) ==
    IF s = <<>> THEN 0
    ELSE IF IsAsciiWhitespace(Head(s)) THEN CountTokens(Tail(s), FALSE)
    ELSE (IF inToken THEN 0 ELSE 1) + CountTokens(Tail(s), TRUE)

split_ascii_whitespace_count(s) == CountTokens(s, FALSE)

\* [&str]::join(" ")
RECURSIVE join(_)
join(words) ==
    IF words = <<>> THEN <<>>
    ELSE IF Len(words) = 1 THEN words[1]
    ELSE words[1] \o <<" ">> \o join(Tail(words))

InvalidChars == {"BACKTICK", "|"}
MarkdownChars ==
    {"-", "_", "+", "*", "QUOTE", "#", "=", ".", "CDOT", "BACKSLASH", "<", ">", "{", "}"}

\* a variant whose pattern lacks the pipe
INVALID_REGEX_is_match_backtick(name) == \E i \in 1..Len(name) : name[i] = "BACKTICK"

\* a variant whose pattern is anchored: the whole name must be such characters
INVALID_REGEX_is_match_anchored(name) ==
    name # <<>> /\ \A i \in 1..Len(name) : name[i] \in InvalidChars

\* INVALID_REGEX.is_match: a backtick or a pipe occurs somewhere in the name
INVALID_REGEX_is_match(name) == \E i \in 1..Len(name) : name[i] \in InvalidChars

\* MARKDOWN_ESCAPE_REGEX.replace_all: the regex matches maximal runs of markdown
\* characters, and each match is replaced by a backslash followed by the match
RECURSIVE EscapeRuns(_, _)
EscapeRuns(s, inRun) ==
    IF s = <<>> THEN <<>>
    ELSE IF Head(s) \in MarkdownChars
         THEN (IF inRun THEN <<>> ELSE <<"BACKSLASH">>) \o <<Head(s)>> \o EscapeRuns(Tail(s), TRUE)
         ELSE <<Head(s)>> \o EscapeRuns(Tail(s), FALSE)

to_markdown_safe(name) == EscapeRuns(name, FALSE)

Digits == {"0", "1", "2", "3", "4", "5", "6", "7", "8", "9"}

DigitValue(c) ==
    CASE c = "0" -> 0 [] c = "1" -> 1 [] c = "2" -> 2 [] c = "3" -> 3 [] c = "4" -> 4
      [] c = "5" -> 5 [] c = "6" -> 6 [] c = "7" -> 7 [] c = "8" -> 8 [] OTHER -> 9

\* str::parse::<u64>(): <<"Ok", n>>, or <<"Err">> for an empty string or a
\* character that is no digit (the inputs of the model hold one or two digits,
\* far from the 64-bit limit)
RECURSIVE ParseDigits(_, _)
ParseDigits(s, acc) ==
    IF s = <<>> THEN <<"Ok", acc>>
    ELSE IF Head(s) \notin Digits THEN <<"Err">>
    ELSE ParseDigits(Tail(s), acc * 10 + DigitValue(Head(s)))

parse_u64(s) == IF s = <<>> THEN <<"Err">> ELSE ParseDigits(s, 0)

\* Regex::captures for a pattern  prefix (\d+) ">"  that is not anchored: the
\* digits of the leftmost match, or <<>> when nothing matches
MentionMatches(s, prefix) ==
    { <<i, j>> \in (1..Len(s)) \X (1..Len(s)) :
        /\ i + Len(prefix) < j
        /\ SubSeq(s, i, i + Len(prefix) - 1) = prefix
        /\ \A k \in (i + Len(prefix))..(j - 1) : s[k] \in Digits
        /\ s[j] = ">" }

mention_captures(s, prefix) ==
    LET ms == MentionMatches(s, prefix)
    IN IF ms = {} THEN <<>>
       ELSE LET i == CHOOSE x \in {m[1] : m \in ms} : \A m \in ms : x <= m[1]
                \* \d+ is greedy: the longest run of digits that ">" follows
                j == CHOOSE y \in {m[2] : m \in {n \in ms : n[1] = i}} :
                        \A m \in {n \in ms : n[1] = i} : y >= m[2]
            IN SubSeq(s, i + Len(prefix), j - 1)

USER_MENTION_REGEX_captures(s) == mention_captures(s, <<"<", "@", "!">>)
CHANNEL_MENTION_REGEX_captures(s) == mention_captures(s, <<"<", "#">>)

(***************************************************************************)
(* The persistent state store (state.rs)                                   *)
(***************************************************************************)
VARIABLES
    ps,        \* the in-memory PersistentState
    disk,      \* the content of state.json
    main,      \* the process: "running", "exited" (main returned Err), "panicked"
    pc,        \* "idle": waiting for an event; "creating": createchannels awaits
               \* its first channel; "handled": handle_event returned
    ev,        \* the event (or store call) handled last
    calls,     \* the requests and store calls made while handling it, in order
               \* (under StoreSpec: every store call made so far)
    replies,   \* the messages sent while handling it, in order
    result,    \* what the handler (or store call) returned
    accepted,  \* history: the idea of each user's last accepted submission
    lock,      \* the Mutex of PersistentState::instance(): 0 when free, else
               \* the caller that holds the guard
    task       \* under LockSpec: where each caller of the store is in its
               \* store operation

vars == <<ps, disk, main, pc, ev, calls, replies, result, accepted, lock, task>>

\* the callers of the store that LockSpec runs side by side
MaxTasks == 2
Tasks == 1..MaxTasks

IdleTask == [pc |-> "idle", op |-> <<"none">>]

\* no caller is in a store operation: the Mutex is free
NoTasks ==
    /\ lock = 0
    /\ task = [t \in Tasks |-> IdleTask]

\* PersistentState::load when state.json does not exist
DefaultState ==
    [ theme_ideas |-> <<>>,
      channel_creators |-> <<>>,
      role_assign_channel_id |-> 0,
      role_assign_message_id |-> 0,
      \* the reference !seteula sets: a field of the record of main.rs:68-73
      eula_channel_id |-> 0,
      eula_message_id |-> 0 ]

\* the file system: no state.json; a state.json cut short by a failed write
NoFile == <<"absent">>
Truncated == <<"truncated">>

\* HashMap::insert and HashMap::remove
MapInsert(m, k, v) == [x \in (DOMAIN m) \cup {k} |-> IF x = k THEN v ELSE m[x]]
MapRemove(m, k) == [x \in (DOMAIN m) \ {k} |-> m[x]]

\* serde_json::to_string(&self): a JSON object; each map becomes the set of
\* its "key": value members
to_json(s) ==
    << "json",
       { <<u, s.theme_ideas[u]>> : u \in DOMAIN s.theme_ideas },
       { <<u, s.channel_creators[u].game_name, s.channel_creators[u].category_id,
           s.channel_creators[u].text_id, s.channel_creators[u].voice_id>> :
           u \in DOMAIN s.channel_creators },
       s.role_assign_channel_id,
       s.role_assign_message_id,
       s.eula_channel_id,
       s.eula_message_id >>

\* the outcomes of PersistentState::save: File::create fails (the file is left
\* as it was), write_all fails (the file was truncated by File::create), or
\* the whole document is written
SaveOutcomes == {"ok", "create_failed", "write_failed"}

save(s, d, outcome) ==
    CASE outcome = "ok" -> [ok |-> TRUE, disk |-> to_json(s)]
      [] outcome = "create_failed" -> [ok |-> FALSE, disk |-> d]
      [] OTHER -> [ok |-> FALSE, disk |-> Truncated]

has_created_channel(s, id) == id \in DOMAIN s.channel_creators

get_channel_info(s, id) == s.channel_creators[id]

\* the in-memory half of each mutation; the save follows it
insert_channel_creator(s, user_id, team) ==
    [s EXCEPT !.channel_creators = MapInsert(@, user_id, team)]

\* a variant that writes the file before the map is updated
register_channel_creation_saves_first(s, d, user_id, team, outcome) ==
    LET w == save(s, d, outcome)
    IN [ps |-> insert_channel_creator(s, user_id, team), disk |-> w.disk, ok |-> w.ok]

register_channel_creation(s, d, user_id, team, outcome) ==
    LET s2 == insert_channel_creator(s, user_id, team)
        w == save(s2, d, outcome)
    IN [ps |-> s2, disk |-> w.disk, ok |-> w.ok]

\* a variant that leaves the entry in the map
remove_channel_creator_keeps(s, user_id) == s

remove_channel_creator(s, user_id) ==
    [s EXCEPT !.channel_creators = MapRemove(@, user_id)]

remove_channel(s, d, user_id, outcome) ==
    LET s2 == remove_channel_creator(s, user_id)
        w == save(s2, d, outcome)
    IN [ps |-> s2, disk |-> w.disk, ok |-> w.ok]

\* a variant that keeps the channel of a reference that was set before
set_role_assign_keeps_channel(s, d, channel_id, message_id, outcome) ==
    LET s2 == [s EXCEPT !.role_assign_channel_id =
                            IF @ = 0 THEN channel_id ELSE @,
                        !.role_assign_message_id = message_id]
        w == save(s2, d, outcome)
    IN [ps |-> s2, disk |-> w.disk, ok |-> w.ok]

\* a variant that restores the old reference when the save fails
set_role_assign_rollback(s, d, channel_id, message_id, outcome) ==
    LET s2 == [s EXCEPT !.role_assign_channel_id = channel_id,
                        !.role_assign_message_id = message_id]
        w == save(s2, d, outcome)
    IN [ps |-> IF w.ok THEN s2 ELSE s, disk |-> w.disk, ok |-> w.ok]

set_role_assign(s, d, channel_id, message_id, outcome) ==
    LET s2 == [s EXCEPT !.role_assign_channel_id = channel_id,
                        !.role_assign_message_id = message_id]
        w == save(s2, d, outcome)
    IN [ps |-> s2, disk |-> w.disk, ok |-> w.ok]

get_role_assign_channel(s) == s.role_assign_channel_id
get_role_assign_message(s) == s.role_assign_message_id

\* set_eula (main.rs), the twin of set_role_assign
set_eula(s, d, channel_id, message_id, outcome) ==
    LET s2 == [s EXCEPT !.eula_channel_id = channel_id,
                        !.eula_message_id = message_id]
        w == save(s2, d, outcome)
    IN [ps |-> s2, disk |-> w.disk, ok |-> w.ok]

get_eula_channel(s) == s.eula_channel_id
get_eula_message(s) == s.eula_message_id

\* a variant that reads the previous submission after the insertion
try_add_theme_reads_late(s, d, user, idea, outcome) ==
    LET had == user \in DOMAIN s.theme_ideas
        s2 == [s EXCEPT !.theme_ideas = MapInsert(@, user, idea)]
        previous_submission == s2.theme_ideas[user]
        w == save(s2, d, outcome)
    IN [ps |-> s2, disk |-> w.disk, ok |-> w.ok,
        value |-> IF had THEN <<"AlreadySubmitted", previous_submission>>
                  ELSE <<"Done">>]

\* PersistentState::try_add_theme (theme.rs): the previous submission is read
\* before the new one replaces it
try_add_theme(s, d, user, idea, outcome) ==
    LET had == user \in DOMAIN s.theme_ideas
        previous_submission == IF had THEN s.theme_ideas[user] ELSE <<>>
        s2 == [s EXCEPT !.theme_ideas = MapInsert(@, user, idea)]
        w == save(s2, d, outcome)
    IN [ps |-> s2, disk |-> w.disk, ok |-> w.ok,
        value |-> IF had THEN <<"AlreadySubmitted", previous_submission>>
                  ELSE <<"Done">>]

(***************************************************************************)
(* What the chat platform answers                                          *)
(***************************************************************************)
\* has_role (role.rs): Ok(true), Ok(false), or the request failed
RoleAnswers == {"yes", "no", "err"}
Unasked == <<"unasked">>

\* create_guild_channel: the request failed, the channel came back as another
\* variant than GuildChannel::Category, or it came back as that variant with a
\* fresh identifier (identifiers grow with time: later channels get larger ones)
CreateAnswers(after) ==
    { <<"failed">>, <<"other">> } \cup { <<"ok", id>> : id \in { i \in ChannelIds : i > after } }

\* update_channel / delete_channel: Ok(Channel::Guild(GuildChannel::Category(_)))
\* or anything else
ChannelAnswers == {"category", "other"}

\* http.message: Err, Ok(None), Ok(Some(message))
FetchAnswers == {"err", "none", "ok"}

\* a handler's outcome: the store, the file, the requests made, the messages
\* sent and what the handler returned ("Ok", "Err", or "Panic")
Out(s, d, c, r, res) ==
    [ps |-> s, disk |-> d, calls |-> c, replies |-> r, result |-> res]

\* utils::send_message: the content is prefixed with a mention of user_id; a
\* failed request is logged and Ok(()) is returned all the same
Reply(user_id, kind, a, b) == <<user_id, kind, a, b>>

\* http.create_message(channel).content(...): no mention
PlainReply(kind, a, b) == <<0, kind, a, b>>

(***************************************************************************)
(* channel.rs                                                              *)
(***************************************************************************)
\* assert_is_jam: "ok", "secret" (neither role) or "err" (a lookup failed);
\* the Organizer lookup is made only when the Jammer lookup answered false
assert_is_jam(jam, org) ==
    IF jam = "err" THEN "err"
    ELSE IF jam = "yes" THEN "ok"
    ELSE IF org = "err" THEN "err"
    ELSE IF org = "yes" THEN "ok"
    ELSE "secret"

\* has_role (role.rs): the lookups of the guild's roles and of the member
RoleCall(user_id, role_name, answer) == <<"has_role", user_id, role_name, answer>>

\* the lookups assert_is_jam makes
JamCalls(user_id, jam, org) ==
    << RoleCall(user_id, "Jammer", jam) >>
    \o (IF jam = "no" THEN << RoleCall(user_id, "Organizer", org) >> ELSE <<>>)

\* a call of a mutating store operation and the outcome of its save
StoreEntry(op, outcome) == <<op, outcome>>

\* PersistentState::instance().lock().unwrap() bound by a let: the guard
\* lives to the end of the handler, whatever is awaited before it
LockCall == <<"lock">>

CreateCall(kind, parent, name, answer) ==
    <<"create_guild_channel", kind, parent, name, answer>>

TeamPrefix == <<"T", "e", "a", "m", ":", " ">>

\* a variant that reports a text channel of the wrong kind as a failed request
create_team_conflates_kinds(s, d, user, rest_command, cat, text, voice, sv) ==
    LET game_name == join(rest_command)
        category_name == TeamPrefix \o game_name
        c1 == << CreateCall("GuildCategory", 0, category_name, cat) >>
        c2 == c1 \o << CreateCall("GuildText", cat[2], game_name, text) >>
        c3 == c2 \o << CreateCall("GuildVoice", cat[2], game_name, voice) >>
        team == [ game_name |-> to_markdown_safe(game_name),
                  category_id |-> cat[2],
                  text_id |-> text[2],
                  voice_id |-> voice[2] ]
        reg == register_channel_creation(s, d, user, team, sv)
        Fail(e, c) == [res |-> <<"Err", e>>, ps |-> s, disk |-> d, calls |-> c]
    IN IF has_created_channel(s, user) THEN Fail("AlreadyCreated", <<>>)
       ELSE IF Len(rest_command) = 0 THEN Fail("NoName", <<>>)
       ELSE IF INVALID_REGEX_is_match(game_name) THEN Fail("InvalidName", <<>>)
       ELSE IF cat[1] = "failed" THEN Fail("CategoryCreationFailed", c1)
       ELSE IF cat[1] = "other" THEN Fail("CategoryNotCreated", c1)
       ELSE IF text[1] = "failed" THEN Fail("TextCreationFailed", c2)
       ELSE IF text[1] = "other" THEN Fail("TextCreationFailed", c2)
       ELSE IF voice[1] = "failed" THEN Fail("VoiceCreationFailed", c3)
       ELSE IF voice[1] = "other" THEN Fail("VoiceNotCreated", c3)
       \* register_channel_creation(..).unwrap()
       ELSE IF ~reg.ok
            THEN [res |-> <<"Panic">>, ps |-> reg.ps, disk |-> reg.disk,
                  calls |-> Append(c3, StoreEntry("register_channel_creation", sv))]
            ELSE [res |-> <<"Ok", team>>, ps |-> reg.ps, disk |-> reg.disk,
                  calls |-> Append(c3, StoreEntry("register_channel_creation", sv))]

\* a variant that records the voice channel as the text channel
create_team_swaps_ids(s, d, user, rest_command, cat, text, voice, sv) ==
    LET game_name == join(rest_command)
        category_name == TeamPrefix \o game_name
        c1 == << CreateCall("GuildCategory", 0, category_name, cat) >>
        c2 == c1 \o << CreateCall("GuildText", cat[2], game_name, text) >>
        c3 == c2 \o << CreateCall("GuildVoice", cat[2], game_name, voice) >>
        team == [ game_name |-> to_markdown_safe(game_name),
                  category_id |-> cat[2],
                  text_id |-> voice[2],
                  voice_id |-> text[2] ]
        reg == register_channel_creation(s, d, user, team, sv)
        Fail(e, c) == [res |-> <<"Err", e>>, ps |-> s, disk |-> d, calls |-> c]
    IN IF has_created_channel(s, user) THEN Fail("AlreadyCreated", <<>>)
       ELSE IF Len(rest_command) = 0 THEN Fail("NoName", <<>>)
       ELSE IF INVALID_REGEX_is_match(game_name) THEN Fail("InvalidName", <<>>)
       ELSE IF cat[1] = "failed" THEN Fail("CategoryCreationFailed", c1)
       ELSE IF cat[1] = "other" THEN Fail("CategoryNotCreated", c1)
       ELSE IF text[1] = "failed" THEN Fail("TextCreationFailed", c2)
       ELSE IF text[1] = "other" THEN Fail("TextNotCreated", c2)
       ELSE IF voice[1] = "failed" THEN Fail("VoiceCreationFailed", c3)
       ELSE IF voice[1] = "other" THEN Fail("VoiceNotCreated", c3)
       \* register_channel_creation(..).unwrap()
       ELSE IF ~reg.ok
            THEN [res |-> <<"Panic">>, ps |-> reg.ps, disk |-> reg.disk,
                  calls |-> Append(c3, StoreEntry("register_channel_creation", sv))]
            ELSE [res |-> <<"Ok", team>>, ps |-> reg.ps, disk |-> reg.disk,
                  calls |-> Append(c3, StoreEntry("register_channel_creation", sv))]

create_team(s, d, user, rest_command, cat, text, voice, sv) ==
    LET game_name == join(rest_command)
        category_name == TeamPrefix \o game_name
        c1 == << CreateCall("GuildCategory", 0, category_name, cat) >>
        c2 == c1 \o << CreateCall("GuildText", cat[2], game_name, text) >>
        c3 == c2 \o << CreateCall("GuildVoice", cat[2], game_name, voice) >>
        team == [ game_name |-> to_markdown_safe(game_name),
                  category_id |-> cat[2],
                  text_id |-> text[2],
                  voice_id |-> voice[2] ]
        reg == register_channel_creation(s, d, user, team, sv)
        Fail(e, c) == [res |-> <<"Err", e>>, ps |-> s, disk |-> d, calls |-> c]
    IN IF has_created_channel(s, user) THEN Fail("AlreadyCreated", <<>>)
       ELSE IF Len(rest_command) = 0 THEN Fail("NoName", <<>>)
       ELSE IF INVALID_REGEX_is_match(game_name) THEN Fail("InvalidName", <<>>)
       ELSE IF cat[1] = "failed" THEN Fail("CategoryCreationFailed", c1)
       ELSE IF cat[1] = "other" THEN Fail("CategoryNotCreated", c1)
       ELSE IF text[1] = "failed" THEN Fail("TextCreationFailed", c2)
       ELSE IF text[1] = "other" THEN Fail("TextNotCreated", c2)
       ELSE IF voice[1] = "failed" THEN Fail("VoiceCreationFailed", c3)
       ELSE IF voice[1] = "other" THEN Fail("VoiceNotCreated", c3)
       \* register_channel_creation(..).unwrap()
       ELSE IF ~reg.ok
            THEN [res |-> <<"Panic">>, ps |-> reg.ps, disk |-> reg.disk,
                  calls |-> Append(c3, StoreEntry("register_channel_creation", sv))]
            ELSE [res |-> <<"Ok", team>>, ps |-> reg.ps, disk |-> reg.disk,
                  calls |-> Append(c3, StoreEntry("register_channel_creation", sv))]

\* Display for ChannelCreationError: AlreadyCreated reads the stored team
\* a variant whose AlreadyCreated message names the category
ChannelCreationError_fmt_category(s, e, user) ==
    IF e = "AlreadyCreated"
    THEN Reply(user, "AlreadyCreated",
               get_channel_info(s, user).game_name, get_channel_info(s, user).category_id)
    ELSE Reply(user, e, <<>>, 0)

ChannelCreationError_fmt(s, e, user) ==
    IF e = "AlreadyCreated"
    THEN Reply(user, "AlreadyCreated",
               get_channel_info(s, user).game_name, get_channel_info(s, user).text_id)
    ELSE Reply(user, e, <<>>, 0)

handle_create_channels(s, d, user_id, rest_command, jam, org, cat, text, voice, sv) ==
    LET a == assert_is_jam(jam, org)
        j == JamCalls(user_id, jam, org)
        t == create_team(s, d, user_id, rest_command, cat, text, voice, sv)
    IN IF a = "secret" THEN Out(s, d, j, <<Reply(user_id, "SecretCommand", <<>>, 0)>>, "Ok")
       ELSE IF a = "err" THEN Out(s, d, j, <<Reply(user_id, "RoleLookupFailed", <<>>, 0)>>, "Ok")
       ELSE IF t.res[1] = "Panic" THEN Out(t.ps, t.disk, j \o t.calls, <<>>, "Panic")
       ELSE IF t.res[1] = "Ok"
            THEN Out(t.ps, t.disk, j \o t.calls,
                     <<Reply(user_id, "ChannelsCreated", t.res[2].game_name, t.res[2].text_id)>>,
                     "Ok")
            ELSE Out(t.ps, t.disk, j \o t.calls,
                     <<ChannelCreationError_fmt(t.ps, t.res[2], user_id)>>, "Ok")

\* the entries of names whose answer is (want = TRUE) or is not (want = FALSE)
\* the Category variant
RECURSIVE Pick(_, _, _)
Pick(names, answers, want) ==
    IF names = <<>> THEN <<>>
    ELSE (IF (Head(answers) = "category") = want THEN <<Head(names)>> ELSE <<>>)
         \o Pick(Tail(names), Tail(answers), want)

ResourceNames == <<"category", "text channel", "voice channel">>

\* a variant that takes one missing resource for several
have_has_plural(errs) == IF Len(errs) > 0 THEN "have" ELSE "has"

have_has(errs) == IF Len(errs) > 1 THEN "have" ELSE "has"

\* the reply of rename and remove: what succeeded, what did not
ListingReply(user_id, kinds, oks, errs, game_name) ==
    IF Len(oks) > 0
    THEN IF Len(errs) > 0
         THEN Reply(user_id, kinds.some, <<oks, errs, have_has(errs)>>, game_name)
         ELSE Reply(user_id, kinds.all, <<oks, errs, "">>, game_name)
    \* Category, text channel and voice channel for .. have ..
    ELSE Reply(user_id, kinds.none, <<oks, ResourceNames, "have">>, game_name)

RenamedKinds == [all |-> "RenamedAll", some |-> "RenamedSome", none |-> "RenamedNone"]
RemovedKinds == [all |-> "RemovedAll", some |-> "RemovedSome", none |-> "RemovedNone"]

UpdateCall(kind, id, parent, name, answer) ==
    <<"update_channel", kind, id, parent, name, answer>>

\* a variant that stores the new name after the three updates, and only when
\* one of them succeeded
handle_rename_channels_updates_first(s, d, user_id, rest_command, jam, org, sv, ac, at, av) ==
    LET a == assert_is_jam(jam, org)
        new_name == join(rest_command)
        team == [get_channel_info(s, user_id) EXCEPT !.game_name = to_markdown_safe(new_name)]
        reg == register_channel_creation(s, d, user_id, team, sv)
        updates == << UpdateCall("GuildCategory", team.category_id, 0, new_name, ac),
                      UpdateCall("GuildText", team.text_id, team.category_id, new_name, at),
                      UpdateCall("GuildVoice", team.voice_id, team.category_id, new_name, av) >>
        oks == Pick(ResourceNames, <<ac, at, av>>, TRUE)
        errs == Pick(ResourceNames, <<ac, at, av>>, FALSE)
        j == JamCalls(user_id, jam, org)
        reply == <<ListingReply(user_id, RenamedKinds, oks, errs, team.game_name)>>
    IN IF a # "ok" \/ Len(rest_command) = 0 \/ INVALID_REGEX_is_match(new_name)
          \/ ~has_created_channel(s, user_id) \/ sv # "ok"
       THEN Out(s, d, j, <<>>, "Ok")
       ELSE IF oks = <<>> THEN Out(s, d, j \o updates, reply, "Ok")
       ELSE Out(reg.ps, reg.disk,
                Append(j \o updates, StoreEntry("register_channel_creation", sv)),
                reply, "Ok")

\* a variant that registers the new name without looking for the caller's team
handle_rename_channels_unchecked(s, d, user_id, rest_command, jam, org, sv, ac, at, av) ==
    LET a == assert_is_jam(jam, org)
        new_name == join(rest_command)
        team == [game_name |-> to_markdown_safe(new_name), category_id |-> 1,
                 text_id |-> 2, voice_id |-> 3]
        reg == register_channel_creation(s, d, user_id, team, "ok")
        j == JamCalls(user_id, jam, org)
    IN IF a # "ok" \/ Len(rest_command) = 0 \/ INVALID_REGEX_is_match(new_name)
       THEN Out(s, d, j, <<>>, "Ok")
       ELSE Out(reg.ps, reg.disk, Append(j, StoreEntry("register_channel_creation", "ok")),
                <<>>, "Ok")

handle_rename_channels(s, d, user_id, rest_command, jam, org, sv, ac, at, av) ==
    LET a == assert_is_jam(jam, org)
        new_name == join(rest_command)
        team == [get_channel_info(s, user_id) EXCEPT !.game_name = to_markdown_safe(new_name)]
        reg == register_channel_creation(s, d, user_id, team, sv)
        updates == << UpdateCall("GuildCategory", team.category_id, 0, new_name, ac),
                      UpdateCall("GuildText", team.text_id, team.category_id, new_name, at),
                      UpdateCall("GuildVoice", team.voice_id, team.category_id, new_name, av) >>
        oks == Pick(ResourceNames, <<ac, at, av>>, TRUE)
        errs == Pick(ResourceNames, <<ac, at, av>>, FALSE)
        j == JamCalls(user_id, jam, org)
        jr == Append(j, StoreEntry("register_channel_creation", sv))
    IN IF a = "secret" THEN Out(s, d, j, <<Reply(user_id, "SecretCommand", <<>>, 0)>>, "Ok")
       ELSE IF a = "err" THEN Out(s, d, j, <<Reply(user_id, "RoleLookupFailed", <<>>, 0)>>, "Ok")
       ELSE IF Len(rest_command) = 0 THEN Out(s, d, j, <<>>, "Ok")
       ELSE IF INVALID_REGEX_is_match(new_name)
            THEN Out(s, d, j, <<Reply(user_id, "InvalidName", <<>>, 0)>>, "Ok")
       ELSE IF ~has_created_channel(s, user_id)
            THEN Out(s, d, j, <<Reply(user_id, "NotCreatedYet", <<>>, 0)>>, "Ok")
       \* register_channel_creation(..)?
       ELSE IF ~reg.ok THEN Out(reg.ps, reg.disk, jr, <<>>, "Err")
       ELSE Out(reg.ps, reg.disk, jr \o updates,
                <<ListingReply(user_id, RenamedKinds, oks, errs, team.game_name)>>, "Ok")

DeleteCall(id, answer) == <<"delete_channel", id, answer>>

\* a variant that deletes the category before its two channels
handle_remove_channels_category_first(s, d, author_id, rest_command, org, at, av, ac, sv) ==
    LET caps == USER_MENTION_REGEX_captures(rest_command[1])
        id == parse_u64(caps)
        user_id == id[2]
        team == get_channel_info(s, user_id)
        \* text, then voice, and the category last
        deletes == << DeleteCall(team.category_id, ac),
                      DeleteCall(team.text_id, at),
                      DeleteCall(team.voice_id, av) >>
        oks == Pick(ResourceNames, <<ac, at, av>>, TRUE)
        errs == Pick(ResourceNames, <<ac, at, av>>, FALSE)
        rem == remove_channel(s, d, user_id, sv)
        h == << RoleCall(author_id, "Organizer", org) >>
        all == Append(h \o deletes, StoreEntry("remove_channel", sv))
    IN IF org = "err" THEN Out(s, d, h, <<>>, "Err")
       ELSE IF org = "no" THEN Out(s, d, h, <<Reply(author_id, "NeedOrganizer", <<>>, 0)>>, "Ok")
       ELSE IF Len(rest_command) = 0
            THEN Out(s, d, h, <<Reply(author_id, "ForgotUserId", <<>>, 0)>>, "Ok")
       ELSE IF caps = <<>>
            THEN Out(s, d, h, <<Reply(author_id, "InvalidUserReference", <<>>, 0)>>, "Ok")
       ELSE IF id[1] = "Err"
            THEN Out(s, d, h, <<Reply(author_id, "InvalidUserId", <<>>, 0)>>, "Ok")
       ELSE IF ~has_created_channel(s, user_id)
            THEN Out(s, d, h, <<Reply(author_id, "NoTeamChannels", <<>>, 0)>>, "Ok")
       \* remove_channel(user_id).unwrap()
       ELSE IF ~rem.ok THEN Out(rem.ps, rem.disk, all, <<>>, "Panic")
       ELSE Out(rem.ps, rem.disk, all,
                <<ListingReply(author_id, RemovedKinds, oks, errs, team.game_name)>>, "Ok")

\* a variant that unregisters the team only when all three deletions succeeded
handle_remove_channels_if_deleted(s, d, author_id, rest_command, org, at, av, ac, sv) ==
    LET caps == USER_MENTION_REGEX_captures(rest_command[1])
        id == parse_u64(caps)
        user_id == id[2]
        team == get_channel_info(s, user_id)
        \* text, then voice, and the category last
        deletes == << DeleteCall(team.text_id, at),
                      DeleteCall(team.voice_id, av),
                      DeleteCall(team.category_id, ac) >>
        oks == Pick(ResourceNames, <<ac, at, av>>, TRUE)
        errs == Pick(ResourceNames, <<ac, at, av>>, FALSE)
        rem == IF at = "category" /\ av = "category" /\ ac = "category"
               THEN remove_channel(s, d, user_id, sv)
               ELSE [ps |-> s, disk |-> d, ok |-> TRUE]
        h == << RoleCall(author_id, "Organizer", org) >>
        all == Append(h \o deletes, StoreEntry("remove_channel", sv))
    IN IF org = "err" THEN Out(s, d, h, <<>>, "Err")
       ELSE IF org = "no" THEN Out(s, d, h, <<Reply(author_id, "NeedOrganizer", <<>>, 0)>>, "Ok")
       ELSE IF Len(rest_command) = 0
            THEN Out(s, d, h, <<Reply(author_id, "ForgotUserId", <<>>, 0)>>, "Ok")
       ELSE IF caps = <<>>
            THEN Out(s, d, h, <<Reply(author_id, "InvalidUserReference", <<>>, 0)>>, "Ok")
       ELSE IF id[1] = "Err"
            THEN Out(s, d, h, <<Reply(author_id, "InvalidUserId", <<>>, 0)>>, "Ok")
       ELSE IF ~has_created_channel(s, user_id)
            THEN Out(s, d, h, <<Reply(author_id, "NoTeamChannels", <<>>, 0)>>, "Ok")
       \* remove_channel(user_id).unwrap()
       ELSE IF ~rem.ok THEN Out(rem.ps, rem.disk, all, <<>>, "Panic")
       ELSE Out(rem.ps, rem.disk, all,
                <<ListingReply(author_id, RemovedKinds, oks, errs, team.game_name)>>, "Ok")

handle_remove_channels(s, d, author_id, rest_command, org, at, av, ac, sv) ==
    LET caps == USER_MENTION_REGEX_captures(rest_command[1])
        id == parse_u64(caps)
        user_id == id[2]
        team == get_channel_info(s, user_id)
        \* text, then voice, and the category last
        deletes == << DeleteCall(team.text_id, at),
                      DeleteCall(team.voice_id, av),
                      DeleteCall(team.category_id, ac) >>
        oks == Pick(ResourceNames, <<ac, at, av>>, TRUE)
        errs == Pick(ResourceNames, <<ac, at, av>>, FALSE)
        rem == remove_channel(s, d, user_id, sv)
        h == << RoleCall(author_id, "Organizer", org) >>
        all == Append(h \o deletes, StoreEntry("remove_channel", sv))
    IN IF org = "err" THEN Out(s, d, h, <<>>, "Err")
       ELSE IF org = "no" THEN Out(s, d, h, <<Reply(author_id, "NeedOrganizer", <<>>, 0)>>, "Ok")
       ELSE IF Len(rest_command) = 0
            THEN Out(s, d, h, <<Reply(author_id, "ForgotUserId", <<>>, 0)>>, "Ok")
       ELSE IF caps = <<>>
            THEN Out(s, d, h, <<Reply(author_id, "InvalidUserReference", <<>>, 0)>>, "Ok")
       ELSE IF id[1] = "Err"
            THEN Out(s, d, h, <<Reply(author_id, "InvalidUserId", <<>>, 0)>>, "Ok")
       ELSE IF ~has_created_channel(s, user_id)
            THEN Out(s, d, h, <<Reply(author_id, "NoTeamChannels", <<>>, 0)>>, "Ok")
       \* remove_channel(user_id).unwrap()
       ELSE IF ~rem.ok THEN Out(rem.ps, rem.disk, all, <<>>, "Panic")
       ELSE Out(rem.ps, rem.disk, all,
                <<ListingReply(author_id, RemovedKinds, oks, errs, team.game_name)>>, "Ok")

(***************************************************************************)
(* theme.rs                                                                *)
(***************************************************************************)
\* a variant that turns down two or more words but not an empty message
handle_add_theme_rejects_many(s, d, author_id, content, sv, sent) ==
    LET r == try_add_theme(s, d, author_id, content, sv)
        sending == IF sent THEN "Ok" ELSE "Err"
        c == << StoreEntry("try_add_theme", sv) >>
    IN IF split_ascii_whitespace_count(content) > 1
       THEN Out(s, d, <<>>, <<PlainReply("SingleWord", <<>>, <<>>)>>, sending)
       ELSE IF ~r.ok THEN Out(r.ps, r.disk, c, <<>>, "Err")
       ELSE IF r.value[1] = "Done"
            THEN Out(r.ps, r.disk, c, <<PlainReply("Registered", content, <<>>)>>, sending)
            ELSE Out(r.ps, r.disk, c,
                     <<PlainReply("Replaced", content, r.value[2])>>, sending)

\* handle_add_theme: every create_message is followed by `?`, and so is
\* try_add_theme
handle_add_theme(s, d, author_id, content, sv, sent) ==
    LET r == try_add_theme(s, d, author_id, content, sv)
        sending == IF sent THEN "Ok" ELSE "Err"
        c == << StoreEntry("try_add_theme", sv) >>
    IN IF split_ascii_whitespace_count(content) # 1
       THEN Out(s, d, <<>>, <<PlainReply("SingleWord", <<>>, <<>>)>>, sending)
       ELSE IF ~r.ok THEN Out(r.ps, r.disk, c, <<>>, "Err")
       ELSE IF r.value[1] = "Done"
            THEN Out(r.ps, r.disk, c, <<PlainReply("Registered", content, <<>>)>>, sending)
            ELSE Out(r.ps, r.disk, c,
                     <<PlainReply("Replaced", content, r.value[2])>>, sending)

(***************************************************************************)
(* reaction.rs                                                             *)
(***************************************************************************)
\* the reactions handle_set_reaction_message attaches, in order
OptionEmoji == <<"computer", "palette", "moyai", "speaker", "notes", "bulb", "die">>

ReactionCall(channel_id, message_id, emoji, ok) ==
    <<"create_reaction", channel_id, message_id, emoji, ok>>

FetchCall(channel_id, message_id, answer) == <<"message", channel_id, message_id, answer>>

\* a variant that goes on to the remaining emoji after a request failed
Reactions_goes_on(channel_id, message_id, attached) ==
    [ i \in 1..Len(OptionEmoji) |->
        ReactionCall(channel_id, message_id, OptionEmoji[i], i # attached + 1) ]

\* the create_reaction requests made when the first `attached` of them succeed:
\* the one after them fails and `?` returns
Reactions(channel_id, message_id, attached) ==
    [ i \in 1..(IF attached < Len(OptionEmoji) THEN attached + 1 ELSE attached) |->
        ReactionCall(channel_id, message_id, OptionEmoji[i], i <= attached) ]

\* a variant that stores the reference before it attaches the reactions
handle_set_reaction_message_stores_first(s, d, author_id, rest_command, org, fetch, attached, sv) ==
    LET caps == CHANNEL_MENTION_REGEX_captures(rest_command[1])
        channel_id_num == parse_u64(caps)
        messege_id_num == parse_u64(rest_command[2])
        \* the message fetched is the one asked for
        channel_id == channel_id_num[2]
        message_id == messege_id_num[2]
        h == << RoleCall(author_id, "Organizer", org) >>
        f == Append(h, FetchCall(channel_id, message_id, fetch))
        fr == Append(f, LockCall) \o Reactions(channel_id, message_id, attached)
        all == f \o << LockCall, StoreEntry("set_role_assign", sv) >>
               \o Reactions(channel_id, message_id, attached)
        set == set_role_assign(s, d, channel_id, message_id, sv)
    IN IF org = "err" THEN Out(s, d, h, <<>>, "Err")
       ELSE IF org = "no"
            THEN Out(s, d, h, <<Reply(author_id, "LackOrganizer", <<>>, 0)>>, "Ok")
       ELSE IF Len(rest_command) < 2
            THEN Out(s, d, h, <<Reply(author_id, "ProperUsage", <<>>, 0)>>, "Ok")
       ELSE IF caps = <<>> \/ channel_id_num[1] = "Err"
            THEN Out(s, d, h, <<Reply(author_id, "InvalidChannelReference", <<>>, 0)>>, "Ok")
       ELSE IF messege_id_num[1] = "Err"
            THEN Out(s, d, h, <<Reply(author_id, "MessageIdNotNumber", <<>>, 0)>>, "Ok")
       ELSE IF fetch = "err"
            THEN Out(s, d, f, <<Reply(author_id, "NoMessageFound", message_id, channel_id)>>, "Ok")
       \* response.unwrap()
       ELSE IF fetch = "none" THEN Out(s, d, f, <<>>, "Panic")
       \* create_reaction(..).await?
       ELSE IF attached < Len(OptionEmoji) THEN Out(set.ps, set.disk, all, <<>>, "Err")
       ELSE IF set.ok
            THEN Out(set.ps, set.disk, all,
                     <<Reply(author_id, "ReactionMessageSet", message_id, channel_id)>>, "Ok")
            ELSE Out(set.ps, set.disk, all,
                     <<Reply(author_id, "CouldNotSet", <<>>, 0)>>, "Ok")

handle_set_reaction_message(s, d, author_id, rest_command, org, fetch, attached, sv) ==
    LET caps == CHANNEL_MENTION_REGEX_captures(rest_command[1])
        channel_id_num == parse_u64(caps)
        messege_id_num == parse_u64(rest_command[2])
        \* the message fetched is the one asked for
        channel_id == channel_id_num[2]
        message_id == messege_id_num[2]
        h == << RoleCall(author_id, "Organizer", org) >>
        f == Append(h, FetchCall(channel_id, message_id, fetch))
        \* the store is locked by a let once the message is fetched, to the end
        \* of the handler
        fr == Append(f, LockCall) \o Reactions(channel_id, message_id, attached)
        all == Append(fr, StoreEntry("set_role_assign", sv))
        set == set_role_assign(s, d, channel_id, message_id, sv)
    IN IF org = "err" THEN Out(s, d, h, <<>>, "Err")
       ELSE IF org = "no"
            THEN Out(s, d, h, <<Reply(author_id, "LackOrganizer", <<>>, 0)>>, "Ok")
       ELSE IF Len(rest_command) < 2
            THEN Out(s, d, h, <<Reply(author_id, "ProperUsage", <<>>, 0)>>, "Ok")
       ELSE IF caps = <<>> \/ channel_id_num[1] = "Err"
            THEN Out(s, d, h, <<Reply(author_id, "InvalidChannelReference", <<>>, 0)>>, "Ok")
       ELSE IF messege_id_num[1] = "Err"
            THEN Out(s, d, h, <<Reply(author_id, "MessageIdNotNumber", <<>>, 0)>>, "Ok")
       ELSE IF fetch = "err"
            THEN Out(s, d, f, <<Reply(author_id, "NoMessageFound", message_id, channel_id)>>, "Ok")
       \* response.unwrap()
       ELSE IF fetch = "none" THEN Out(s, d, f, <<>>, "Panic")
       \* create_reaction(..).await?
       ELSE IF attached < Len(OptionEmoji) THEN Out(s, d, fr, <<>>, "Err")
       ELSE IF set.ok
            THEN Out(set.ps, set.disk, all,
                     <<Reply(author_id, "ReactionMessageSet", message_id, channel_id)>>, "Ok")
            ELSE Out(set.ps, set.disk, all,
                     <<Reply(author_id, "CouldNotSet", <<>>, 0)>>, "Ok")

(***************************************************************************)
(* main.rs: the event loop.  handle_event is awaited inside the loop, so   *)
(* one event is handled to its end before the next one is taken.           *)
(***************************************************************************)
Init ==
    /\ ps = DefaultState
    /\ disk = NoFile
    /\ main = "running"
    /\ pc = "idle"
    /\ ev = <<"none">>
    /\ calls = <<>>
    /\ replies = <<>>
    /\ result = "Ok"
    /\ accepted = <<>>
    /\ NoTasks

\* events.next() gave an event and handle_event ran a handler to its end
Handled(event, o) ==
    /\ ev' = event
    /\ ps' = o.ps
    /\ disk' = o.disk
    /\ calls' = o.calls
    /\ replies' = o.replies
    /\ result' = o.result
    /\ pc' = "handled"
    /\ main' = main
    /\ UNCHANGED <<lock, task>>

Receiving == main = "running" /\ pc = "idle"

\* is_pm: http.channel(..).await? fails before any handler runs
IsPmFails ==
    /\ Receiving
    /\ Handled(<<"is_pm">>, Out(ps, disk, <<>>, <<>>, "Err"))
    /\ UNCHANGED accepted

CreateReaches(s, user, rest, a) ==
    /\ a = "ok"
    /\ ~has_created_channel(s, user)
    /\ Len(rest) > 0
    /\ ~INVALID_REGEX_is_match(join(rest))

\* createchannels that ends before any channel is requested: the role check
\* or one of create_team's first three checks turns it down
MessageCreateCreateChannels ==
    /\ Receiving
    /\ \E user \in Users, rest \in RestCommands, jam \in RoleAnswers :
       \E org \in (IF jam = "no" THEN RoleAnswers ELSE {"unasked"}) :
          /\ ~CreateReaches(ps, user, rest, assert_is_jam(jam, org))
          /\ Handled(<<"createchannels", user, rest>>,
                     handle_create_channels(ps, disk, user, rest, jam, org,
                                            Unasked, Unasked, Unasked, "unasked"))
    /\ UNCHANGED accepted

\* createchannels that passed those checks and now awaits
\* create_guild_channel(..) for the category (channel.rs:380-385)
CreateChannelsChecked ==
    /\ Receiving
    /\ \E user \in Users, rest \in RestCommands, jam \in RoleAnswers :
       \E org \in (IF jam = "no" THEN RoleAnswers ELSE {"unasked"}) :
          /\ CreateReaches(ps, user, rest, assert_is_jam(jam, org))
          /\ ev' = <<"createchannels", user, rest>>
          /\ calls' = JamCalls(user, jam, org)
    /\ pc' = "creating"
    /\ replies' = <<>>
    /\ result' = "Ok"
    /\ UNCHANGED <<ps, disk, main, accepted, lock, task>>

\* the rest of that handler: the three requests, the registration, the reply
CreateChannelsCompleted ==
    /\ main = "running" /\ pc = "creating"
    /\ LET jam == calls[1][4]
           org == IF Len(calls) > 1 THEN calls[2][4] ELSE "unasked"
       IN \E cat \in CreateAnswers(0) :
          \E text \in (IF cat[1] = "ok" THEN CreateAnswers(cat[2]) ELSE {Unasked}) :
          \E voice \in (IF text[1] = "ok" THEN CreateAnswers(text[2]) ELSE {Unasked}) :
          \E sv \in (IF voice[1] = "ok" THEN SaveOutcomes ELSE {"unasked"}) :
             Handled(ev, handle_create_channels(ps, disk, ev[2], ev[3], jam, org,
                                                cat, text, voice, sv))
    /\ UNCHANGED accepted

RenameReaches(s, user, rest, a) ==
    /\ a = "ok"
    /\ Len(rest) > 0
    /\ ~INVALID_REGEX_is_match(join(rest))
    /\ has_created_channel(s, user)

MessageCreateRenameChannels ==
    /\ Receiving
    /\ \E user \in Users, rest \in RestCommands, jam \in RoleAnswers :
       \E org \in (IF jam = "no" THEN RoleAnswers ELSE {"unasked"}) :
       \E sv \in (IF RenameReaches(ps, user, rest, assert_is_jam(jam, org))
                  THEN SaveOutcomes ELSE {"unasked"}) :
       \E ac, at, av \in (IF sv = "ok" THEN ChannelAnswers ELSE {"unasked"}) :
          Handled(<<"renamechannels", user, rest>>,
                  handle_rename_channels(ps, disk, user, rest, jam, org, sv, ac, at, av))
    /\ UNCHANGED accepted

RemoveReaches(s, rest, org) ==
    /\ org = "yes"
    /\ Len(rest) > 0
    /\ USER_MENTION_REGEX_captures(rest[1]) # <<>>
    /\ parse_u64(USER_MENTION_REGEX_captures(rest[1]))[1] = "Ok"
    /\ has_created_channel(s, parse_u64(USER_MENTION_REGEX_captures(rest[1]))[2])

MessageCreateRemoveChannels ==
    /\ Receiving
    /\ \E author \in Users, rest \in RemoveArgs, org \in RoleAnswers :
       \E at, av, ac \in (IF RemoveReaches(ps, rest, org) THEN ChannelAnswers ELSE {"unasked"}) :
       \E sv \in (IF RemoveReaches(ps, rest, org) THEN SaveOutcomes ELSE {"unasked"}) :
          Handled(<<"removechannels", author, rest>>,
                  handle_remove_channels(ps, disk, author, rest, org, at, av, ac, sv))
    /\ UNCHANGED accepted

FetchReaches(rest, org) ==
    /\ org = "yes"
    /\ Len(rest) >= 2
    /\ CHANNEL_MENTION_REGEX_captures(rest[1]) # <<>>
    /\ parse_u64(rest[2])[1] = "Ok"

MessageCreateSetRoleAssign ==
    /\ Receiving
    /\ \E author \in Users, rest \in RoleAssignArgs, org \in RoleAnswers :
       \E fetch \in (IF FetchReaches(rest, org) THEN FetchAnswers ELSE {"unasked"}) :
       \E attached \in (IF fetch = "ok" THEN 0..Len(OptionEmoji) ELSE {0}) :
       \E sv \in (IF fetch = "ok" /\ attached = Len(OptionEmoji)
                  THEN SaveOutcomes ELSE {"unasked"}) :
          Handled(<<"setroleassign", author, rest>>,
                  handle_set_reaction_message(ps, disk, author, rest, org, fetch, attached, sv))
    /\ UNCHANGED accepted

\* a message in a private channel: handle_add_theme
MessageCreatePm ==
    /\ Receiving
    /\ \E author \in Users, content \in Contents :
       \E sv \in (IF split_ascii_whitespace_count(content) = 1
                  THEN SaveOutcomes ELSE {"unasked"}) :
       \E sent \in (IF sv \in {"ok", "unasked"} THEN BOOLEAN ELSE {FALSE}) :
          /\ Handled(<<"pm", author, content>>,
                     handle_add_theme(ps, disk, author, content, sv, sent))
          /\ accepted' = IF sv = "ok" THEN MapInsert(accepted, author, content) ELSE accepted

\* handle_event(..).await? in main: Ok(()) lets the loop take the next event
LoopContinues ==
    /\ main = "running" /\ pc = "handled" /\ result = "Ok"
    /\ pc' = "idle"
    /\ ev' = <<"none">>
    /\ calls' = <<>>
    /\ replies' = <<>>
    /\ UNCHANGED <<ps, disk, main, result, accepted, lock, task>>

\* Err(e): `?` returns it from main and the process ends
MainReturnsErr ==
    /\ main = "running" /\ pc = "handled" /\ result = "Err"
    /\ main' = "exited"
    /\ UNCHANGED <<ps, disk, pc, ev, calls, replies, result, accepted, lock, task>>

\* a panic unwinds through handle_event and main
MainPanics ==
    /\ main = "running" /\ pc = "handled" /\ result = "Panic"
    /\ main' = "panicked"
    /\ UNCHANGED <<ps, disk, pc, ev, calls, replies, result, accepted, lock, task>>

Next ==
    \/ IsPmFails
    \/ MessageCreatePm
    \/ MessageCreateCreateChannels
    \/ CreateChannelsChecked
    \/ CreateChannelsCompleted
    \/ MessageCreateRenameChannels
    \/ MessageCreateRemoveChannels
    \/ MessageCreateSetRoleAssign
    \/ LoopContinues
    \/ MainReturnsErr
    \/ MainPanics

Spec == Init /\ [][Next]_vars

\* createchannels alone; the loop takes the next event whenever one is
\* delivered and a handler that was started runs to its end
CreateNext ==
    \/ MessageCreateCreateChannels
    \/ CreateChannelsChecked
    \/ CreateChannelsCompleted
    \/ LoopContinues
    \/ MainPanics

CreateSpec == Init /\ [][CreateNext]_vars /\ WF_vars(CreateNext)

(***************************************************************************)
(* The store on its own: any sequence of calls of its mutating operations, *)
(* each with any outcome of its save.  calls is the history of the calls   *)
(* made so far, ev the last of them and result what it returned.           *)
(***************************************************************************)
MaxStoreCalls == 3

StoreTeams ==
    { [game_name |-> <<"a">>, category_id |-> 1, text_id |-> 2, voice_id |-> 3],
      [game_name |-> <<"BACKSLASH", "-", "-">>, category_id |-> 1, text_id |-> 2,
       voice_id |-> 3] }

StoreIdeas == { c \in Contents : split_ascii_whitespace_count(c) = 1 }

StoreCall(op, user, arg, r) ==
    LET entry == <<op, user, arg, IF r.ok THEN "Ok" ELSE "Err">>
    IN /\ main = "running"
       /\ Len(calls) < MaxStoreCalls
       /\ ps' = r.ps
       /\ disk' = r.disk
       /\ ev' = entry
       /\ calls' = Append(calls, entry)
       /\ result' = entry[4]
       /\ UNCHANGED <<main, pc, replies, accepted, lock, task>>

StoreRegister ==
    \E u \in Users, team \in StoreTeams, sv \in SaveOutcomes :
        StoreCall("register_channel_creation", u, team,
                  register_channel_creation(ps, disk, u, team, sv))

StoreRemove ==
    \E u \in Users, sv \in SaveOutcomes :
        StoreCall("remove_channel", u, <<>>, remove_channel(ps, disk, u, sv))

StoreSetRoleAssign ==
    \E c \in MsgChannelIds, m \in MessageIds, sv \in SaveOutcomes :
        StoreCall("set_role_assign", 0, <<c, m>>, set_role_assign(ps, disk, c, m, sv))

StoreAddTheme ==
    \E u \in Users, idea \in StoreIdeas, sv \in SaveOutcomes :
        StoreCall("try_add_theme", u, idea, try_add_theme(ps, disk, u, idea, sv))

StoreNext ==
    \/ StoreRegister
    \/ StoreRemove
    \/ StoreSetRoleAssign
    \/ StoreAddTheme

StoreSpec == Init /\ [][StoreNext]_vars

(***************************************************************************)
(* Properties of the store                                                 *)
(***************************************************************************)
\* the calls made so far include a register_channel_creation for user u
\* (only the ones that returned Ok, when onlyOk)
RegisterCalled(u, onlyOk) ==
    \E i \in 1..Len(calls) :
        /\ calls[i][1] = "register_channel_creation"
        /\ calls[i][2] = u
        /\ (onlyOk => calls[i][4] = "Ok")

LastCallIs(op) == Len(calls) > 0 /\ ev[1] = op

\* C5 as stated: has_created_channel(u) is false until a
\* register_channel_creation(u) has returned Ok, and false right after
\* remove_channel(u)
C5_FalseBeforeSuccessfulRegister ==
    \A u \in Users :
        /\ has_created_channel(ps, u) => RegisterCalled(u, TRUE)
        /\ (LastCallIs("remove_channel") /\ ev[2] = u) => ~has_created_channel(ps, u)

\* C5: has_created_channel(u) is false until register_channel_creation(u) has
\* been called (whether or not its save succeeded), and false right after
\* remove_channel(u) (whether or not its save succeeded)
C5_FalseBeforeRegisterCall ==
    \A u \in Users :
        /\ has_created_channel(ps, u) => RegisterCalled(u, FALSE)
        /\ (LastCallIs("remove_channel") /\ ev[2] = u) => ~has_created_channel(ps, u)

\* a user was registered and then removed, while the other user, never
\* registered, has no team although a call for them failed to save
C5_Witness ==
    \E u, v \in Users :
        /\ u # v
        /\ RegisterCalled(u, FALSE)
        /\ LastCallIs("remove_channel") /\ ev[2] = u
        /\ ~has_created_channel(ps, u)
        /\ ~has_created_channel(ps, v)
        /\ \E i \in 1..Len(calls) : calls[i][2] = v /\ calls[i][4] = "Err"

\* C6: when the last mutating store call returned Ok, state.json holds the
\* serialization of the in-memory record
C6_DiskMatchesMemoryAfterOk ==
    (Len(calls) > 0 /\ result = "Ok") => disk = to_json(ps)

\* a call returned Ok after an earlier call had failed to save
C6_Witness ==
    /\ Len(calls) > 1
    /\ result = "Ok"
    /\ calls[Len(calls) - 1][4] = "Err"
    /\ ps # DefaultState
    /\ disk = to_json(ps)

\* what a store call is meant to do to the in-memory record
ExpectedMutation(s, e) ==
    CASE e[1] = "register_channel_creation" ->
            [s EXCEPT !.channel_creators =
                [x \in (DOMAIN s.channel_creators) \cup {e[2]} |->
                    IF x = e[2] THEN e[3] ELSE s.channel_creators[x]]]
      [] e[1] = "remove_channel" ->
            [s EXCEPT !.channel_creators =
                [x \in (DOMAIN s.channel_creators) \ {e[2]} |-> s.channel_creators[x]]]
      [] e[1] = "set_role_assign" ->
            [s EXCEPT !.role_assign_channel_id = e[3][1],
                      !.role_assign_message_id = e[3][2]]
      [] e[1] = "try_add_theme" ->
            [s EXCEPT !.theme_ideas =
                [x \in (DOMAIN s.theme_ideas) \cup {e[2]} |->
                    IF x = e[2] THEN e[3] ELSE s.theme_ideas[x]]]

\* C7: a store call whose save fails returns Err and leaves in memory exactly
\* the record a successful call would have left; state.json is not that
\* record's serialization unless it already was
C7_FailedSaveKeepsMutation ==
    [][ (Len(calls') = Len(calls) + 1 /\ result' = "Err") =>
            /\ ps' = ExpectedMutation(ps, ev')
            /\ disk' \in {disk, Truncated} ]_vars

\* a call replaced a stored value, failed to save, and the file still holds
\* the old value
C7_Witness ==
    /\ Len(calls) > 1
    /\ result = "Err"
    /\ ev[1] = "set_role_assign"
    /\ get_role_assign_channel(ps) = ev[3][1]
    /\ disk # Truncated /\ disk # NoFile
    /\ disk # to_json(ps)

(***************************************************************************)
(* Properties of the handlers and of the event loop                        *)
(***************************************************************************)
\* the entries of a trace c that are requests of kind op
CallsOf(c, op) == SelectSeq(c, LAMBDA e : e[1] = op)

StoreOps ==
    {"register_channel_creation", "remove_channel", "set_role_assign", "set_eula",
     "try_add_theme"}

\* a request that was answered as hoped, a save that wrote the file
Succeeded(e) ==
    CASE e[1] = "has_role" -> e[4] # "err"
      [] e[1] = "create_guild_channel" -> e[5][1] = "ok"
      [] e[1] \in StoreOps -> e[2] = "ok"
      [] OTHER -> FALSE

\* C1: a createchannels from a user with the Jammer role and no team, with a
\* valid name, all of whose requests and whose save succeed, makes exactly
\* three creations (category, then text and voice under that category), maps
\* the user to the three returned ids and the escaped name, and replies with
\* the text channel
C1_CreateChannelsSuccess ==
    [][ ( /\ pc = "creating" /\ pc' = "handled"
          /\ calls[1] = RoleCall(ev[2], "Jammer", "yes")
          /\ ~has_created_channel(ps, ev[2])
          /\ Len(ev[3]) > 0 /\ ~INVALID_REGEX_is_match(join(ev[3]))
          /\ \A i \in 1..Len(calls') : Succeeded(calls'[i]) )
        =>
        LET u == ev[2]
            cr == CallsOf(calls', "create_guild_channel")
        IN /\ Len(cr) = 3
           /\ cr[1][2] = "GuildCategory" /\ cr[1][3] = 0
           /\ cr[2][2] = "GuildText" /\ cr[2][3] = cr[1][5][2]
           /\ cr[3][2] = "GuildVoice" /\ cr[3][3] = cr[1][5][2]
           /\ has_created_channel(ps', u)
           /\ get_channel_info(ps', u) =
                 [ game_name |-> to_markdown_safe(join(ev[3])),
                   category_id |-> cr[1][5][2],
                   text_id |-> cr[2][5][2],
                   voice_id |-> cr[3][5][2] ]
           /\ replies' = << Reply(u, "ChannelsCreated",
                                  to_markdown_safe(join(ev[3])), cr[2][5][2]) >>
           /\ result' = "Ok" ]_vars

\* a team whose name needed escaping was created and announced
C1_Witness ==
    /\ pc = "handled" /\ ev[1] = "createchannels"
    /\ Len(replies) = 1 /\ replies[1][2] = "ChannelsCreated"
    /\ ev[3] = << <<"-", "-">> >>
    /\ has_created_channel(ps, ev[2])
    /\ get_channel_info(ps, ev[2]).game_name = <<"BACKSLASH", "-", "-">>
    /\ replies[1][4] = get_channel_info(ps, ev[2]).text_id

\* the reply that names the text channel of the team the store holds
AlreadyCreatedReply(s, u) ==
    << Reply(u, "AlreadyCreated", s.channel_creators[u].game_name,
             s.channel_creators[u].text_id) >>

\* the role lookups of a trace ended with a yes
RoleCheckPassed(c) ==
    /\ Len(c) > 0
    /\ c[Len(c)][1] = "has_role"
    /\ c[Len(c)][4] = "yes"

\* C2 as stated: every createchannels from a user who has a team is answered
\* with AlreadyCreated naming the stored text channel, requests no creation
\* and leaves the store as it was
C2_AlwaysAlreadyCreated ==
    [][ ( /\ pc = "idle" /\ pc' # "idle"
          /\ ev'[1] = "createchannels"
          /\ has_created_channel(ps, ev'[2]) )
        =>
        /\ pc' = "handled"
        /\ replies' = AlreadyCreatedReply(ps, ev'[2])
        /\ CallsOf(calls', "create_guild_channel") = <<>>
        /\ ps' = ps ]_vars

\* C2: a createchannels from a user who has a team requests no creation and
\* leaves the store as it was, whatever its arguments; when the role check
\* passes, it is answered with AlreadyCreated naming the stored text channel
C2_AlreadyCreatedWhenRolePasses ==
    [][ ( /\ pc = "idle" /\ pc' # "idle"
          /\ ev'[1] = "createchannels"
          /\ has_created_channel(ps, ev'[2]) )
        =>
        /\ pc' = "handled"
        /\ result' = "Ok"
        /\ CallsOf(calls', "create_guild_channel") = <<>>
        /\ CallsOf(calls', "register_channel_creation") = <<>>
        /\ ps' = ps
        /\ disk' = disk
        /\ (RoleCheckPassed(calls') => replies' = AlreadyCreatedReply(ps, ev'[2])) ]_vars

\* a user who has a team asked again, with a name that would be invalid, and
\* was told the team exists
C2_Witness ==
    /\ pc = "handled" /\ ev[1] = "createchannels"
    /\ INVALID_REGEX_is_match(join(ev[3]))
    /\ has_created_channel(ps, ev[2])
    /\ replies = AlreadyCreatedReply(ps, ev[2])

\* a createchannels handler that passed the has_created_channel check and has
\* not registered yet, while the store already holds a team for its user
RaceState == pc = "creating" /\ has_created_channel(ps, ev[2])

MentionedUser(rest) == parse_u64(USER_MENTION_REGEX_captures(rest[1]))[2]

\* C4: a removechannels from an organizer that mentions a user who has a team
\* leaves that user without a team, whatever the three deletions answered
C4_RemoveAlwaysUnregisters ==
    [][ ( /\ pc = "idle" /\ pc' = "handled"
          /\ ev'[1] = "removechannels"
          /\ calls'[1] = RoleCall(ev'[2], "Organizer", "yes")
          /\ Len(ev'[3]) > 0
          /\ USER_MENTION_REGEX_captures(ev'[3][1]) # <<>>
          /\ has_created_channel(ps, MentionedUser(ev'[3])) )
        =>
        /\ ~has_created_channel(ps', MentionedUser(ev'[3]))
        /\ Len(CallsOf(calls', "delete_channel")) = 3 ]_vars

\* all three deletions failed and the team is gone
C4_Witness ==
    /\ pc = "handled" /\ ev[1] = "removechannels"
    /\ result = "Ok"
    /\ Len(CallsOf(calls, "delete_channel")) = 3
    /\ \A i \in 1..3 : CallsOf(calls, "delete_channel")[i][3] # "category"
    /\ ~has_created_channel(ps, MentionedUser(ev[3]))

\* a store call in the trace did not write the file
SaveFailed ==
    \E i \in 1..Len(calls) : calls[i][1] \in StoreOps /\ calls[i][2] # "ok"

\* C8: a handler in which a save failed sends a reply and returns Ok
C8_SaveFailureHandledLocally ==
    (pc = "handled" /\ SaveFailed) => (result = "Ok" /\ replies # <<>>)

\* C9: whatever a handler raised, the event loop goes on
C9_EventLoopKeepsRunning == main = "running"

\* C10: an accepted submission after an earlier accepted one is answered with
\* the idea of the one just before it, a first accepted submission with no
\* previous idea, and the store then holds the submitted idea for that user
C10_ResubmissionReturnsPrevious ==
    [][ ( /\ pc = "idle" /\ pc' = "handled"
          /\ ev'[1] = "pm"
          /\ CallsOf(calls', "try_add_theme") = << StoreEntry("try_add_theme", "ok") >> )
        =>
        LET u == ev'[2] IN
        /\ u \in DOMAIN accepted =>
              replies' = << PlainReply("Replaced", ev'[3], accepted[u]) >>
        /\ u \notin DOMAIN accepted =>
              replies' = << PlainReply("Registered", ev'[3], <<>>) >>
        /\ u \in DOMAIN ps'.theme_ideas
        /\ ps'.theme_ideas[u] = ev'[3] ]_vars

\* a user replaced an idea by a different one and was shown the old one
C10_Witness ==
    /\ pc = "handled" /\ ev[1] = "pm"
    /\ replies = << PlainReply("Replaced", <<"a">>, <<" ", "a">>) >>
    /\ ps.theme_ideas[ev[2]] = <<"a">>

\* C11: a private message that does not hold exactly one word is answered with
\* the single-word rejection; the store and state.json stay as they were and
\* no store call is made
C11_NotOneWordRejected ==
    [][ ( /\ pc = "idle" /\ pc' = "handled"
          /\ ev'[1] = "pm"
          /\ split_ascii_whitespace_count(ev'[3]) # 1 )
        =>
        /\ ps' = ps
        /\ disk' = disk
        /\ calls' = <<>>
        /\ replies' = << PlainReply("SingleWord", <<>>, <<>>) >> ]_vars

\* a user who has an idea stored sent an empty message and was turned down
C11_Witness ==
    /\ pc = "handled" /\ ev[1] = "pm"
    /\ ev[3] = <<>>
    /\ ev[2] \in DOMAIN ps.theme_ideas
    /\ replies = << PlainReply("SingleWord", <<>>, <<>>) >>

\* two words were turned down
C11_TwoWords ==
    /\ pc = "handled" /\ ev[1] = "pm"
    /\ ev[3] = <<"a", " ", "b">>
    /\ replies = << PlainReply("SingleWord", <<>>, <<>>) >>

\* C12: every idea the store holds is one word: it is not empty and holds no
\* whitespace character
C12_StoredIdeasHoldNoWhitespace ==
    \A u \in DOMAIN ps.theme_ideas :
        /\ ps.theme_ideas[u] # <<>>
        /\ \A i \in 1..Len(ps.theme_ideas[u]) : ps.theme_ideas[u][i] \notin AsciiWhitespace

(***************************************************************************)
(* The handling of names: createchannels and renamechannels applied once   *)
(* to every short argument list, all requests and the save succeeding      *)
(***************************************************************************)
MaxTokenLen == 2

NameChars == {"a", "-", "_", "BACKTICK", "|"}

\* an argument holds no whitespace and is not empty
NameTokens == UNION { [1..n -> NameChars] : n \in 1..MaxTokenLen }

NameCommands ==
    {<<>>} \cup { <<t>> : t \in NameTokens } \cup { <<t, u>> : t, u \in NameTokens }

\* the team user 1 has after !createchannels a
NameTeam == [game_name |-> <<"a">>, category_id |-> 1, text_id |-> 2, voice_id |-> 3]

NameInit ==
    /\ \E rest \in NameCommands : ev = <<"input", 1, rest>>
    /\ \/ ps = DefaultState /\ disk = NoFile
       \/ /\ ps = insert_channel_creator(DefaultState, 1, NameTeam)
          /\ disk = to_json(ps)
    /\ main = "running"
    /\ pc = "idle"
    /\ calls = <<>>
    /\ replies = <<>>
    /\ result = "Ok"
    /\ accepted = <<>>
    /\ NoTasks

NameCreateChannels ==
    /\ Receiving
    /\ Handled(<<"createchannels", 1, ev[3]>>,
               handle_create_channels(ps, disk, 1, ev[3], "yes", "unasked",
                                      <<"ok", 1>>, <<"ok", 2>>, <<"ok", 3>>, "ok"))
    /\ UNCHANGED accepted

NameRenameChannels ==
    /\ Receiving
    /\ Handled(<<"renamechannels", 1, ev[3]>>,
               handle_rename_channels(ps, disk, 1, ev[3], "yes", "unasked", "ok",
                                      "category", "category", "category"))
    /\ UNCHANGED accepted

NameNext == NameCreateChannels \/ NameRenameChannels

NameSpec == NameInit /\ [][NameNext]_vars

\* some argument holds a backtick or a pipe
HoldsBacktickOrPipe(rest) ==
    \E k \in 1..Len(rest) : \E i \in 1..Len(rest[k]) : rest[k][i] \in {"BACKTICK", "|"}

\* C13: createchannels (from a user without a team) and renamechannels, given
\* at least one argument, answer InvalidName exactly when an argument holds a
\* backtick or a pipe; every other name gets past the validation
C13_RejectsExactlyBacktickAndPipe ==
    [][ ( /\ pc = "idle" /\ pc' = "handled"
          /\ Len(ev[3]) > 0
          /\ ev'[1] = "createchannels" => ~has_created_channel(ps, ev'[2]) )
        =>
        /\ Len(replies') = 1
        /\ (replies'[1][2] = "InvalidName") <=> HoldsBacktickOrPipe(ev[3])
        /\ ~HoldsBacktickOrPipe(ev[3]) =>
              replies'[1][2] \in {"ChannelsCreated", "RenamedAll", "NotCreatedYet"} ]_vars

\* a rename to a name that holds a pipe, by a user who has a team, was turned
\* down
C13_Witness ==
    /\ pc = "handled" /\ ev[1] = "renamechannels"
    /\ \E k \in 1..Len(ev[3]) : \E i \in 1..Len(ev[3][k]) : ev[3][k][i] = "|"
    /\ has_created_channel(ps, ev[2])
    /\ replies = << Reply(ev[2], "InvalidName", <<>>, 0) >>

SpecialChars ==
    {"-", "_", "+", "*", "QUOTE", "#", "=", ".", "BACKSLASH", "<", ">", "{", "}"}

\* a name with a backslash put before each of those characters
RECURSIVE EscapeEach(_)
EscapeEach(s) ==
    IF s = <<>> THEN <<>>
    ELSE (IF Head(s) \in SpecialChars THEN <<"BACKSLASH", Head(s)>> ELSE <<Head(s)>>)
         \o EscapeEach(Tail(s))

\* C15: the name registered by createchannels and by renamechannels is the
\* name given, with a backslash before every special character, also before
\* each character of a run of them
C15_EverySpecialCharacterEscaped ==
    ( /\ pc = "handled"
      /\ ev[1] \in {"createchannels", "renamechannels"}
      /\ CallsOf(calls, "register_channel_creation") # <<>> )
    => get_channel_info(ps, ev[2]).game_name = EscapeEach(join(ev[3]))

\* the channel and the message a setroleassign names
NamedChannel(rest) == parse_u64(CHANNEL_MENTION_REGEX_captures(rest[1]))[2]
NamedMessage(rest) == parse_u64(rest[2])[2]

\* the handler of ev' fetched the message its arguments name
FetchSucceeded ==
    /\ pc = "idle" /\ pc' = "handled"
    /\ ev'[1] = "setroleassign"
    /\ CallsOf(calls', "message") # <<>>
    /\ CallsOf(calls', "message")[1][4] = "ok"

\* the trace c holds seven reactions, all attached to message m of channel ch,
\* with seven different emoji
SevenAttached(c, ch, m) ==
    LET r == CallsOf(c, "create_reaction")
    IN /\ Len(r) = 7
       /\ \A i \in 1..Len(r) : r[i][2] = ch /\ r[i][3] = m /\ r[i][5]
       /\ Cardinality({ r[i][4] : i \in 1..Len(r) }) = 7

\* in the trace c, set_role_assign is called only after seven reactions were
\* attached
StoredAfterReactions(c, ch, m) ==
    \A i \in 1..Len(c) :
        c[i][1] = "set_role_assign" => SevenAttached(SubSeq(c, 1, i - 1), ch, m)

\* the tracked reference of a store
Reference(s) == <<get_role_assign_channel(s), get_role_assign_message(s)>>

C17_ReferenceSetWholesale ==
    /\ Reference(ps) = <<0, 0>>
    /\ [][ /\ Reference(ps') # Reference(ps) =>
               /\ FetchSucceeded
               /\ calls'[1] = RoleCall(ev'[2], "Organizer", "yes")
               /\ Reference(ps') = <<NamedChannel(ev'[3]), NamedMessage(ev'[3])>>
           /\ ( /\ pc = "idle" /\ pc' = "handled"
                /\ ev'[1] = "setroleassign"
                /\ ~FetchSucceeded )
              => Reference(ps') = Reference(ps) ]_vars

\* a reference set by an earlier command survived a command whose message id
\* is not a number
C17_Witness ==
    /\ pc = "handled" /\ ev[1] = "setroleassign"
    /\ replies = << Reply(ev[2], "MessageIdNotNumber", <<>>, 0) >>
    /\ Reference(ps) = <<2, 2>>

\* C18: a removechannels that deletes anything requests three deletions, the
\* one of the category last, after those of the text and the voice channel,
\* and calls remove_channel once, after the three of them
C18_CategoryDeletedLast ==
    [][ ( /\ pc = "idle" /\ pc' = "handled"
          /\ ev'[1] = "removechannels"
          /\ CallsOf(calls', "delete_channel") # <<>> )
        =>
        LET team == get_channel_info(ps, MentionedUser(ev'[3]))
            del == CallsOf(calls', "delete_channel")
        IN /\ Len(del) = 3
           /\ {del[1][2], del[2][2]} = {team.text_id, team.voice_id}
           /\ del[3][2] = team.category_id
           /\ Len(CallsOf(calls', "remove_channel")) = 1
           /\ calls'[Len(calls')][1] = "remove_channel" ]_vars

\* the deletion of the text channel failed, the category was deleted after
\* it and the team was unregistered
C18_Witness ==
    /\ pc = "handled" /\ ev[1] = "removechannels"
    /\ Len(calls) = 5
    /\ calls[2][1] = "delete_channel" /\ calls[2][3] = "other"
    /\ calls[4][1] = "delete_channel" /\ calls[4][3] = "category"
    /\ calls[5] = StoreEntry("remove_channel", "ok")
    /\ ~has_created_channel(ps, MentionedUser(ev[3]))

\* the errors of the three creation steps: the request failed, or it gave a
\* channel of another kind
ErrorOfStep ==
    [ failed |-> <<"CategoryCreationFailed", "TextCreationFailed", "VoiceCreationFailed">>,
      other |-> <<"CategoryNotCreated", "TextNotCreated", "VoiceNotCreated">> ]

\* C19: when a creation of createchannels goes wrong, it is the last request
\* of the handler: nothing more is created, nothing is deleted, no team is
\* registered, the store and state.json stay as they were, and the reply is
\* the error of that step and of that kind of failure
C19_FailedCreationStopsHandler ==
    [][ ( /\ pc = "creating" /\ pc' = "handled"
          /\ \E i \in 1..Len(calls') :
                calls'[i][1] = "create_guild_channel" /\ calls'[i][5][1] # "ok" )
        =>
        LET cr == CallsOf(calls', "create_guild_channel")
            k == Len(cr)
        IN /\ \A i \in 1..(k - 1) : cr[i][5][1] = "ok"
           /\ cr[k][5][1] \in {"failed", "other"}
           /\ calls'[Len(calls')] = cr[k]
           /\ CallsOf(calls', "delete_channel") = <<>>
           /\ CallsOf(calls', "register_channel_creation") = <<>>
           /\ ps' = ps
           /\ disk' = disk
           /\ ~has_created_channel(ps', ev[2])
           /\ replies' = << Reply(ev[2], ErrorOfStep[cr[k][5][1]][k], <<>>, 0) >>
           /\ result' = "Ok" ]_vars

\* the category and the text channel were created, the voice channel came
\* back as another kind of channel, and the user has no team
C19_Witness ==
    /\ pc = "handled" /\ ev[1] = "createchannels"
    /\ Len(CallsOf(calls, "create_guild_channel")) = 3
    /\ calls[Len(calls)][5] = <<"other">>
    /\ replies = << Reply(ev[2], "VoiceNotCreated", <<>>, 0) >>
    /\ ~has_created_channel(ps, ev[2])

\* how often x occurs in the sequence q
Occurrences(q, x) == Cardinality({ i \in 1..Len(q) : q[i] = x })

\* the answers, in a trace, to the requests about the category, the text
\* channel and the voice channel of a team
AnswerFor(c, resource) ==
    LET upd == CallsOf(c, "update_channel")
        del == CallsOf(c, "delete_channel")
    IN IF upd # <<>>
       THEN (CASE resource = "category" -> upd[1][6]
               [] resource = "text channel" -> upd[2][6]
               [] resource = "voice channel" -> upd[3][6])
       ELSE (CASE resource = "category" -> del[3][3]
               [] resource = "text channel" -> del[1][3]
               [] resource = "voice channel" -> del[2][3])

\* C20: the reply of a renamechannels or removechannels that made its three
\* requests lists the category, the text channel and the voice channel once
\* each, among those that succeeded exactly when its request succeeded and
\* among those not found otherwise; one resource not found is followed by
\* has, several by have
C20_ReplyListsEachResourceOnce ==
    [][ ( /\ pc = "idle" /\ pc' = "handled"
          /\ ev'[1] \in {"renamechannels", "removechannels"}
          /\ Len(CallsOf(calls', "update_channel")) + Len(CallsOf(calls', "delete_channel")) = 3
          /\ replies' # <<>> )
        =>
        LET oks == replies'[1][3][1]
            errs == replies'[1][3][2]
            verb == replies'[1][3][3]
        IN /\ Len(replies') = 1
           /\ \A r \in {"category", "text channel", "voice channel"} :
                 /\ Occurrences(oks, r) + Occurrences(errs, r) = 1
                 /\ Occurrences(oks, r) = 1 <=> AnswerFor(calls', r) = "category"
           /\ Len(oks) + Len(errs) = 3
           /\ Len(errs) = 1 => verb = "has"
           /\ Len(errs) > 1 => verb = "have" ]_vars

\* a rename reached the category and the voice channel but not the text
\* channel
C20_Witness ==
    /\ pc = "handled" /\ ev[1] = "renamechannels"
    /\ Len(replies) = 1
    /\ replies[1][2] = "RenamedSome"
    /\ replies[1][3] = << <<"category", "voice channel">>, <<"text channel">>, "has" >>

\* a removal found none of the three
C20_NoneFound ==
    /\ pc = "handled" /\ ev[1] = "removechannels"
    /\ Len(replies) = 1
    /\ replies[1][3] = << <<>>, <<"category", "text channel", "voice channel">>, "have" >>

(***************************************************************************)
(* role.rs: the self-assignable roles                                      *)
(***************************************************************************)
\* the names of the roles (crate::roles), as the notice of handle_give_role
\* spells them; PLAY_TESTER is not in that notice and is spelt as its name says
PROGRAMMER == <<"P", "r", "o", "g", "r", "a", "m", "m", "e", "r">>
ARTIST_2D == <<"2", "D", " ", "A", "r", "t", "i", "s", "t">>
ARTIST_3D == <<"3", "D", " ", "A", "r", "t", "i", "s", "t">>
SOUND_DESIGNER == <<"S", "o", "u", "n", "d", " ", "D", "e", "s", "i", "g", "n", "e", "r">>
MUSICIAN == <<"M", "u", "s", "i", "c", "i", "a", "n">>
IDEA_GUY == <<"I", "d", "e", "a", " ", "G", "u", "y">>
BOARD_GAMES == <<"B", "o", "a", "r", "d", " ", "G", "a", "m", "e", "s">>
JAMMER == <<"J", "a", "m", "m", "e", "r">>
PLAY_TESTER == <<"P", "l", "a", "y", " ", "T", "e", "s", "t", "e", "r">>

UpperCase ==
    <<"A", "B", "C", "D", "E", "F", "G", "H", "I", "J", "K", "L", "M",
      "N", "O", "P", "Q", "R", "S", "T", "U", "V", "W", "X", "Y", "Z">>
LowerCase ==
    <<"a", "b", "c", "d", "e", "f", "g", "h", "i", "j", "k", "l", "m",
      "n", "o", "p", "q", "r", "s", "t", "u", "v", "w", "x", "y", "z">>

\* str::to_lowercase: each upper-case letter becomes its lower-case letter,
\* every other character stays
to_lowercase(s) ==
    [ i \in 1..Len(s) |->
        IF \E k \in 1..Len(UpperCase) : UpperCase[k] = s[i]
        THEN LowerCase[CHOOSE k \in 1..Len(UpperCase) : UpperCase[k] = s[i]]
        ELSE s[i] ]

REQUESTABLE_ROLES ==
    { to_lowercase(PROGRAMMER), to_lowercase(ARTIST_2D), to_lowercase(ARTIST_3D),
      to_lowercase(SOUND_DESIGNER), to_lowercase(MUSICIAN), to_lowercase(IDEA_GUY),
      to_lowercase(BOARD_GAMES), to_lowercase(PLAY_TESTER) }

\* argument lists of !role and !leave
RoleArgs ==
    { <<>>,
      << <<"p", "r", "o", "g", "r", "a", "m", "m", "e", "r">> >>,
      << <<"P", "R", "O", "G", "R", "A", "M", "M", "E", "R">> >>,
      << <<"2", "D">>, <<"A", "r", "t", "i", "s", "t">> >>,
      << <<"2", "d">>, <<"A", "R", "T", "I", "S", "T">> >>,
      << <<"O", "r", "g", "a", "n", "i", "z", "e", "r">> >>,
      << <<"P", "r", "o", "g", "r", "a", "m", "m", "e", "r">>, <<"x">> >> }

\* http.roles(guild): the request fails, or the guild's roles come back in the
\* guild's order; a guild may hold two roles whose names differ in case only
GuildRoleLists ==
    { <<>>,
      << [name |-> PROGRAMMER, id |-> 1], [name |-> ARTIST_2D, id |-> 2],
         [name |-> JAMMER, id |-> 3] >>,
      << [name |-> to_lowercase(ARTIST_2D), id |-> 2], [name |-> PROGRAMMER, id |-> 1],
         [name |-> to_lowercase(PROGRAMMER), id |-> 3] >> }
RolesAnswers == { <<"err">> } \cup { <<"ok", g>> : g \in GuildRoleLists }

\* http.guild_member(guild, user): the request fails, no such member (the
\* unwrap panics), or the member with the identifiers of the roles held
MemberAnswers == { <<"err">>, <<"none">> } \cup { <<"ok", held>> : held \in SUBSET {1, 2, 3} }

\* add_guild_member_role / remove_guild_member_role: Ok or Err
MemberRoleAnswers == {"ok", "err"}

RolesCall(answer) == <<"roles", answer>>
MemberCall(user_id, answer) == <<"guild_member", user_id, answer>>
AddRoleCall(user_id, role_id, answer) == <<"add_guild_member_role", user_id, role_id, answer>>
RemoveRoleCall(user_id, role_id, answer) ==
    <<"remove_guild_member_role", user_id, role_id, answer>>

\* the first role of the guild whose lower-cased name is the one asked for:
\* the loops of set_role and remove_role return at it (0: the loop ends)
RECURSIVE FirstNamed(_, _)
FirstNamed(guild_roles, requested_role) ==
    IF guild_roles = <<>> THEN [name |-> <<>>, id |-> 0]
    ELSE IF to_lowercase(guild_roles[1].name) = requested_role THEN guild_roles[1]
    ELSE FirstNamed(Tail(guild_roles), requested_role)

\* what set_role and remove_role return: the requests made, and Ok(name),
\* Err(error) or a panic
RoleOut(c, res, value) == [calls |-> c, result |-> res, value |-> value]

\* a variant that asks for the role whether or not the member holds it
set_role_always_adds(user_id, role_name, roles, member, add) ==
    LET requested_role == to_lowercase(role_name)
        c1 == << RolesCall(roles) >>
        c2 == Append(c1, MemberCall(user_id, member))
        role == FirstNamed(roles[2], requested_role)
        c3 == Append(c2, AddRoleCall(user_id, role.id, add))
    IN IF roles[1] = "err" THEN RoleOut(c1, "Err", <<"RequestFailed">>)
       ELSE IF member[1] = "err" THEN RoleOut(c2, "Err", <<"RequestFailed">>)
       ELSE IF member[1] = "none" THEN RoleOut(c2, "Panic", <<>>)
       ELSE IF role.id = 0 THEN RoleOut(c2, "Err", <<"InvalidName", role_name>>)
       ELSE IF add = "err" THEN RoleOut(c3, "Err", <<"RequestFailed">>)
       ELSE RoleOut(c3, "Ok", role.name)

\* set_role: the guild's roles and the member are looked up (`?`, and an
\* unwrap of the member); the add request is made only for a role not held
set_role(user_id, role_name, roles, member, add) ==
    LET requested_role == to_lowercase(role_name)
        c1 == << RolesCall(roles) >>
        c2 == Append(c1, MemberCall(user_id, member))
        role == FirstNamed(roles[2], requested_role)
        c3 == Append(c2, AddRoleCall(user_id, role.id, add))
    IN IF roles[1] = "err" THEN RoleOut(c1, "Err", <<"RequestFailed">>)
       ELSE IF member[1] = "err" THEN RoleOut(c2, "Err", <<"RequestFailed">>)
       ELSE IF member[1] = "none" THEN RoleOut(c2, "Panic", <<>>)
       ELSE IF role.id = 0 THEN RoleOut(c2, "Err", <<"InvalidName", role_name>>)
       ELSE IF role.id \notin member[2]
            THEN IF add = "err" THEN RoleOut(c3, "Err", <<"RequestFailed">>)
                 ELSE RoleOut(c3, "Ok", role.name)
       ELSE RoleOut(c2, "Err", <<"AlreadySet", role.name>>)

\* remove_role: the remove request is made only for a role held
remove_role(user_id, role_name, roles, member, remove) ==
    LET requested_role == to_lowercase(role_name)
        c1 == << RolesCall(roles) >>
        c2 == Append(c1, MemberCall(user_id, member))
        role == FirstNamed(roles[2], requested_role)
        c3 == Append(c2, RemoveRoleCall(user_id, role.id, remove))
    IN IF roles[1] = "err" THEN RoleOut(c1, "Err", <<"RequestFailed">>)
       ELSE IF member[1] = "err" THEN RoleOut(c2, "Err", <<"RequestFailed">>)
       ELSE IF member[1] = "none" THEN RoleOut(c2, "Panic", <<>>)
       ELSE IF role.id = 0 THEN RoleOut(c2, "Err", <<"InvalidName", role_name>>)
       ELSE IF role.id \in member[2]
            THEN IF remove = "err" THEN RoleOut(c3, "Err", <<"RequestFailed">>)
                 ELSE RoleOut(c3, "Ok", role.name)
       ELSE RoleOut(c2, "Err", <<"NotSet", role.name>>)

\* Display for RoleError: the text of each error, as the words that tell the
\* four apart and the name it prints
RoleError_fmt(e) ==
    CASE e[1] = "RequestFailed" -> <<"Discord error">>
      [] e[1] = "InvalidName" -> <<"Invalid role name", e[2]>>
      [] e[1] = "AlreadySet" -> <<"Role already set", e[2]>>
      [] OTHER -> <<"Role not set", e[2]>>

\* a variant that looks the name up in the list as it was typed
handle_give_role_as_typed(s, d, author_id, rest_command, roles, member, add) ==
    LET requested_role == join(rest_command)
        r == set_role(author_id, requested_role, roles, member, add)
    IN IF Len(rest_command) = 0 \/ requested_role \notin REQUESTABLE_ROLES
       THEN Out(s, d, <<>>, <<Reply(author_id, "ValidRoles", <<>>, <<>>)>>, "Ok")
       ELSE IF r.result = "Panic" THEN Out(s, d, r.calls, <<>>, "Panic")
       ELSE IF r.result = "Err"
            THEN Out(s, d, r.calls,
                     <<Reply(author_id, "CouldntAssign", RoleError_fmt(r.value), <<>>)>>, "Ok")
       ELSE Out(s, d, r.calls, <<Reply(author_id, "Assigned", r.value, <<>>)>>, "Ok")

\* handle_give_role (!role): the notice of the valid roles unless the joined
\* arguments, lower-cased, are in REQUESTABLE_ROLES; the store is not used
handle_give_role(s, d, author_id, rest_command, roles, member, add) ==
    LET requested_role == join(rest_command)
        r == set_role(author_id, requested_role, roles, member, add)
    IN IF Len(rest_command) = 0 \/ to_lowercase(requested_role) \notin REQUESTABLE_ROLES
       THEN Out(s, d, <<>>, <<Reply(author_id, "ValidRoles", <<>>, <<>>)>>, "Ok")
       ELSE IF r.result = "Panic" THEN Out(s, d, r.calls, <<>>, "Panic")
       ELSE IF r.result = "Err"
            THEN Out(s, d, r.calls,
                     <<Reply(author_id, "CouldntAssign", RoleError_fmt(r.value), <<>>)>>, "Ok")
       ELSE Out(s, d, r.calls, <<Reply(author_id, "Assigned", r.value, <<>>)>>, "Ok")

\* handle_remove_role (!leave)
handle_remove_role(s, d, author_id, rest_command, roles, member, remove) ==
    LET requested_role == join(rest_command)
        r == remove_role(author_id, requested_role, roles, member, remove)
    IN IF Len(rest_command) = 0 \/ to_lowercase(requested_role) \notin REQUESTABLE_ROLES
       THEN Out(s, d, <<>>, <<Reply(author_id, "ValidRoles", <<>>, <<>>)>>, "Ok")
       ELSE IF r.result = "Panic" THEN Out(s, d, r.calls, <<>>, "Panic")
       ELSE IF r.result = "Err"
            THEN Out(s, d, r.calls,
                     <<Reply(author_id, "CouldntStrip", RoleError_fmt(r.value), <<>>)>>, "Ok")
       ELSE Out(s, d, r.calls, <<Reply(author_id, "Stripped", r.value, <<>>)>>, "Ok")

\* what the role lookups of a handler are asked: the member only when the
\* guild's roles came back, the add or remove request only when the role is
\* found and (not) held
LooksUp(rest_command) ==
    Len(rest_command) > 0 /\ to_lowercase(join(rest_command)) \in REQUESTABLE_ROLES

MessageCreateRole ==
    /\ Receiving
    /\ \E author \in Users, rest \in RoleArgs :
       \E roles \in (IF LooksUp(rest) THEN RolesAnswers ELSE {Unasked}) :
       \E member \in (IF roles[1] = "ok" THEN MemberAnswers ELSE {Unasked}) :
       \E add \in (IF /\ member[1] = "ok"
                      /\ FirstNamed(roles[2], to_lowercase(join(rest))).id
                             \notin member[2] \cup {0}
                   THEN MemberRoleAnswers ELSE {"unasked"}) :
          Handled(<<"role", author, rest>>,
                  handle_give_role(ps, disk, author, rest, roles, member, add))
    /\ UNCHANGED accepted

MessageCreateLeave ==
    /\ Receiving
    /\ \E author \in Users, rest \in RoleArgs :
       \E roles \in (IF LooksUp(rest) THEN RolesAnswers ELSE {Unasked}) :
       \E member \in (IF roles[1] = "ok" THEN MemberAnswers ELSE {Unasked}) :
       \E remove \in (IF /\ member[1] = "ok"
                         /\ FirstNamed(roles[2], to_lowercase(join(rest))).id \in member[2]
                      THEN MemberRoleAnswers ELSE {"unasked"}) :
          Handled(<<"leave", author, rest>>,
                  handle_remove_role(ps, disk, author, rest, roles, member, remove))
    /\ UNCHANGED accepted

(***************************************************************************)
(* One event, handled from a store the bot can have built up: nothing      *)
(* stored, or a team of user 1, an idea of each user and a role assignment *)
(* message.  Every handler is run once, with every answer of the platform. *)
(***************************************************************************)
(***************************************************************************)
(* reaction.rs: roles given and taken by reactions                         *)
(***************************************************************************)
\* http.current_user(): the bot's own account, no author of a handled message
current_user == MaxUser + 1

\* the emoji of a reaction: ReactionType::Unicode {name} or a custom emoji
ReactionEmoji ==
    { <<"Unicode", "computer">>, <<"Unicode", "palette">>, <<"Unicode", "notes">>,
      <<"Unicode", "thumbsup">>, <<"Custom">> }

Reactions_ ==
    [ channel_id : MsgChannelIds, message_id : MessageIds,
      user_id : Users \cup {current_user}, emoji : ReactionEmoji ]

\* a variant whose table gives the Jammer role for a thumbs-up
emoji_to_role_thumbsup(emoji) ==
    CASE emoji = "computer" -> <<"Some", PROGRAMMER>>
      [] emoji = "palette" -> <<"Some", ARTIST_2D>>
      [] emoji = "moyai" -> <<"Some", ARTIST_3D>>
      [] emoji = "speaker" -> <<"Some", SOUND_DESIGNER>>
      [] emoji = "notes" -> <<"Some", MUSICIAN>>
      [] emoji = "bulb" -> <<"Some", IDEA_GUY>>
      [] emoji = "die" -> <<"Some", BOARD_GAMES>>
      [] emoji = "thumbsup" -> <<"Some", JAMMER>>
      [] OTHER -> <<"None">>

emoji_to_role(emoji) ==
    CASE emoji = "computer" -> <<"Some", PROGRAMMER>>
      [] emoji = "palette" -> <<"Some", ARTIST_2D>>
      [] emoji = "moyai" -> <<"Some", ARTIST_3D>>
      [] emoji = "speaker" -> <<"Some", SOUND_DESIGNER>>
      [] emoji = "notes" -> <<"Some", MUSICIAN>>
      [] emoji = "bulb" -> <<"Some", IDEA_GUY>>
      [] emoji = "die" -> <<"Some", BOARD_GAMES>>
      [] OTHER -> <<"None">>

\* the reaction is on the role assignment message and its emoji names a role
NamesRole(s, reaction) ==
    /\ reaction.channel_id = get_role_assign_channel(s)
    /\ reaction.message_id = get_role_assign_message(s)
    /\ reaction.emoji[1] = "Unicode"
    /\ emoji_to_role(reaction.emoji[2])[1] = "Some"

\* handle_add_role: an error of set_role is printed
handle_add_role(s, d, reaction, roles, member, add) ==
    LET r == set_role(reaction.user_id, emoji_to_role(reaction.emoji[2])[2],
                      roles, member, add)
    IN IF NamesRole(s, reaction) /\ reaction.user_id # current_user
       THEN Out(s, d, <<LockCall>> \o r.calls, <<>>,
                IF r.result = "Panic" THEN "Panic" ELSE "Ok")
       ELSE Out(s, d, <<LockCall>>, <<>>, "Ok")

\* handle_remove_role of reaction.rs: it is not told who the bot is
handle_remove_role_(s, d, reaction, roles, member, remove) ==
    LET r == remove_role(reaction.user_id, emoji_to_role(reaction.emoji[2])[2],
                         roles, member, remove)
    IN IF NamesRole(s, reaction)
       THEN Out(s, d, <<LockCall>> \o r.calls, <<>>,
                IF r.result = "Panic" THEN "Panic" ELSE "Ok")
       ELSE Out(s, d, <<LockCall>>, <<>>, "Ok")

\* the role the reaction names, in the guild's roles (0: none)
ReactionRole(reaction, roles) ==
    FirstNamed(roles[2], to_lowercase(emoji_to_role(reaction.emoji[2])[2])).id

\* Event::ReactionAdd outside a private channel: handle_reaction_add
ReactionAdd ==
    /\ Receiving
    /\ \E reaction \in Reactions_ :
       \E roles \in (IF NamesRole(ps, reaction) /\ reaction.user_id # current_user
                     THEN RolesAnswers ELSE {Unasked}) :
       \E member \in (IF roles[1] = "ok" THEN MemberAnswers ELSE {Unasked}) :
       \E add \in (IF member[1] = "ok" /\ ReactionRole(reaction, roles) \notin member[2] \cup {0}
                   THEN MemberRoleAnswers ELSE {"unasked"}) :
          Handled(<<"reaction_add", reaction.user_id, reaction>>,
                  handle_add_role(ps, disk, reaction, roles, member, add))
    /\ UNCHANGED accepted

\* Event::ReactionRemove: handle_reaction_remove
ReactionRemove ==
    /\ Receiving
    /\ \E reaction \in Reactions_ :
       \E roles \in (IF NamesRole(ps, reaction) THEN RolesAnswers ELSE {Unasked}) :
       \E member \in (IF roles[1] = "ok" THEN MemberAnswers ELSE {Unasked}) :
       \E remove \in (IF member[1] = "ok" /\ ReactionRole(reaction, roles) \in member[2]
                      THEN MemberRoleAnswers ELSE {"unasked"}) :
          Handled(<<"reaction_remove", reaction.user_id, reaction>>,
                  handle_remove_role_(ps, disk, reaction, roles, member, remove))
    /\ UNCHANGED accepted

(***************************************************************************)
(* theme.rs: generating a theme, showing the ideas                         *)
(***************************************************************************)
\* theme_ideas.iter().map(|(_, idea)| idea): the ideas in the order the map
\* yields them (the order of the keys stands for it; shuffle makes the order
\* of the pair independent of it)
RECURSIVE IdeasFrom(_, _)
IdeasFrom(theme_ideas, users) ==
    IF users = {} THEN <<>>
    ELSE LET u == CHOOSE x \in users : \A y \in users : x <= y
         IN <<theme_ideas[u]>> \o IdeasFrom(theme_ideas, users \ {u})
iter_ideas(s) == IdeasFrom(s.theme_ideas, DOMAIN s.theme_ideas)

\* a variant that draws each of the two ideas from all of them
choose_multiple_with_replacement(items, amount) ==
    IF Len(items) < amount THEN { items }
    ELSE { <<items[i], items[k]>> : i, k \in 1..Len(items) }

\* IteratorRandom::choose_multiple: the reservoir takes the first `amount`
\* items; each later item, the n-th, draws a slot out of n and replaces the
\* item in it if the slot is one of the reservoir's
RECURSIVE Reservoirs(_, _, _)
Reservoirs(reservoir, items, n) ==
    IF n > Len(items) THEN { reservoir }
    ELSE UNION { Reservoirs(IF k <= Len(reservoir)
                            THEN [reservoir EXCEPT ![k] = items[n]]
                            ELSE reservoir,
                            items, n + 1) : k \in 1..n }

choose_multiple(items, amount) ==
    IF Len(items) < amount THEN { items }
    ELSE Reservoirs(SubSeq(items, 1, amount), items, amount + 1)

\* a variant that leaves the order as it is
shuffle_keeps(selected) == { selected }

\* SliceRandom::shuffle: any order of the items
shuffle(selected) ==
    { [i \in DOMAIN selected |-> selected[p[i]]] : p \in Permutations(DOMAIN selected) }

\* do_theme_generation: the messages it can return
do_theme_generation(s) ==
    { IF Len(selected) # 2 THEN <<"NotEnough", <<>>, <<>>>>
      ELSE <<"Theme", selected[1], selected[2]>> :
        selected \in UNION { shuffle(chosen) : chosen \in choose_multiple(iter_ideas(s), 2) } }

\* format_all_ideas: the ideas in the order the map yields them, joined by ", "
format_all_ideas(s) == iter_ideas(s)

\* handle_generate_theme: send_message returns Ok whatever becomes of the
\* request, so the message of its Err arm is never sent
handle_generate_theme(s, d, author_id, org, theme) ==
    LET h == << RoleCall(author_id, "Organizer", org) >>
    IN IF org = "err" THEN Out(s, d, h, <<>>, "Err")
       ELSE IF org = "yes"
            THEN Out(s, d, h, <<Reply(author_id, theme[1], theme[2], theme[3])>>, "Ok")
       ELSE Out(s, d, h, <<Reply(author_id, "LackOrganizerGenerate", <<>>, 0)>>, "Ok")

\* a variant that sends the ideas without a mention
handle_show_all_themes_plain(s, d, author_id, org) ==
    LET h == << RoleCall(author_id, "Organizer", org) >>
    IN IF org = "err" THEN Out(s, d, h, <<>>, "Err")
       ELSE IF org = "yes"
            THEN Out(s, d, h, <<PlainReply("AllIdeas", format_all_ideas(s), 0)>>, "Ok")
       ELSE Out(s, d, h, <<Reply(author_id, "LackOrganizerShowAll", <<>>, 0)>>, "Ok")

\* a variant that shows the ideas to anyone whose roles could be looked up
handle_show_all_themes_to_all(s, d, author_id, org) ==
    LET h == << RoleCall(author_id, "Organizer", org) >>
    IN IF org = "err" THEN Out(s, d, h, <<>>, "Err")
       ELSE Out(s, d, h, <<Reply(author_id, "AllIdeas", format_all_ideas(s), 0)>>, "Ok")

handle_show_all_themes(s, d, author_id, org) ==
    LET h == << RoleCall(author_id, "Organizer", org) >>
    IN IF org = "err" THEN Out(s, d, h, <<>>, "Err")
       ELSE IF org = "yes"
            THEN Out(s, d, h, <<Reply(author_id, "AllIdeas", format_all_ideas(s), 0)>>, "Ok")
       ELSE Out(s, d, h, <<Reply(author_id, "LackOrganizerShowAll", <<>>, 0)>>, "Ok")

MessageCreateGenerateTheme ==
    /\ Receiving
    /\ \E author \in Users, org \in RoleAnswers :
       \E theme \in (IF org = "yes" THEN do_theme_generation(ps) ELSE {Unasked}) :
          Handled(<<"generatetheme", author, <<>>>>,
                  handle_generate_theme(ps, disk, author, org, theme))
    /\ UNCHANGED accepted

MessageCreateShowAllThemes ==
    /\ Receiving
    /\ \E author \in Users, org \in RoleAnswers :
          Handled(<<"showallthemes", author, <<>>>>,
                  handle_show_all_themes(ps, disk, author, org))
    /\ UNCHANGED accepted

\* the two commands alone, from any ideas of up to MaxIdeas users
MaxIdeas == 3
ThemeWords == { <<"a">>, <<"b">>, <<"c">> }
ThemeStores ==
    { [DefaultState EXCEPT !.theme_ideas = ideas] :
        ideas \in UNION { [us -> ThemeWords] : us \in SUBSET (1..MaxIdeas) } }

ThemeInit ==
    /\ ps \in ThemeStores
    /\ disk = IF ps = DefaultState THEN NoFile ELSE to_json(ps)
    /\ main = "running"
    /\ pc = "idle"
    /\ ev = <<"none">>
    /\ calls = <<>>
    /\ replies = <<>>
    /\ result = "Ok"
    /\ accepted = ps.theme_ideas
    /\ NoTasks

ThemeNext ==
    \/ MessageCreateGenerateTheme
    \/ MessageCreateShowAllThemes
    \/ MainReturnsErr

ThemeSpec == ThemeInit /\ [][ThemeNext]_vars

(***************************************************************************)
(* main.rs: !help, a command that is none, a message that is no command    *)
(***************************************************************************)
\* a variant that sends the help message before the notice
handle_unrecognised_command_help_first(s, d, author_id, word, noticed, org, jam, sent) ==
    LET notice == <<Reply(author_id, "UnrecognisedCommand", word, 0)>>
        h == << RoleCall(author_id, "Organizer", org) >>
                \o (IF org = "no" THEN << RoleCall(author_id, "Jammer", jam) >> ELSE <<>>)
        kind == IF org = "yes" THEN "HelpOrganizer"
                ELSE IF jam = "yes" THEN "HelpJammer" ELSE "HelpStandard"
    IN IF ~noticed THEN Out(s, d, <<>>, notice, "Err")
       ELSE IF org = "err" \/ jam = "err" THEN Out(s, d, h, notice, "Err")
       ELSE Out(s, d, h, <<Reply(author_id, kind, <<>>, 0)>> \o notice,
                IF sent THEN "Ok" ELSE "Err")

\* a variant that sends the standard part and the rest as two messages
send_help_message_in_parts(s, d, user_id, org, jam, sent) ==
    LET h == << RoleCall(user_id, "Organizer", org) >>
             \o (IF org = "no" THEN << RoleCall(user_id, "Jammer", jam) >> ELSE <<>>)
        kind == IF org = "yes" THEN "HelpOrganizer"
                ELSE IF jam = "yes" THEN "HelpJammer" ELSE "HelpStandard"
    IN IF org = "err" \/ jam = "err" THEN Out(s, d, h, <<>>, "Err")
       ELSE Out(s, d, h, <<Reply(user_id, "HelpStandard", <<>>, 0),
                           Reply(user_id, kind, <<>>, 0)>>,
                IF sent THEN "Ok" ELSE "Err")

\* send_help_message: the Jammer lookup is made when the Organizer lookup
\* answered false; send_message of main.rs returns the error of a failed send
send_help_message(s, d, user_id, org, jam, sent) ==
    LET h == << RoleCall(user_id, "Organizer", org) >>
             \o (IF org = "no" THEN << RoleCall(user_id, "Jammer", jam) >> ELSE <<>>)
        kind == IF org = "yes" THEN "HelpOrganizer"
                ELSE IF jam = "yes" THEN "HelpJammer" ELSE "HelpStandard"
    IN IF org = "err" \/ jam = "err" THEN Out(s, d, h, <<>>, "Err")
       ELSE Out(s, d, h, <<Reply(user_id, kind, <<>>, 0)>>, IF sent THEN "Ok" ELSE "Err")

\* Some(s) if s.chars().next() == Some('!'): the notice, then the help message
handle_unrecognised_command(s, d, author_id, word, noticed, org, jam, sent) ==
    LET notice == <<Reply(author_id, "UnrecognisedCommand", word, 0)>>
        help == send_help_message(s, d, author_id, org, jam, sent)
    IN IF ~noticed THEN Out(s, d, <<>>, notice, "Err")
       ELSE Out(s, d, help.calls, notice \o help.replies, help.result)

\* Some(_): the help message if the bot is mentioned, nothing otherwise
handle_no_command(s, d, author_id, mentioned, org, jam, sent) ==
    IF mentioned THEN send_help_message(s, d, author_id, org, jam, sent)
    ELSE Out(s, d, <<>>, <<>>, "Ok")

\* the answers send_help_message asks for
MessageCreateHelp ==
    /\ Receiving
    /\ \E author \in Users, org \in RoleAnswers :
       \E jam \in (IF org = "no" THEN RoleAnswers ELSE {"unasked"}) :
       \E sent \in (IF "err" \in {org, jam} THEN {FALSE} ELSE BOOLEAN) :
          Handled(<<"help", author, <<>>>>, send_help_message(ps, disk, author, org, jam, sent))
    /\ UNCHANGED accepted

\* first words that are no command of the bot
UnrecognisedWords == { <<"!">>, <<"!", "a">> }

MessageCreateUnrecognised ==
    /\ Receiving
    /\ \E author \in Users, word \in UnrecognisedWords, noticed \in BOOLEAN :
       \E org \in (IF noticed THEN RoleAnswers ELSE {"unasked"}) :
       \E jam \in (IF org = "no" THEN RoleAnswers ELSE {"unasked"}) :
       \E sent \in (IF noticed /\ "err" \notin {org, jam} THEN BOOLEAN ELSE {FALSE}) :
          Handled(<<"unrecognised", author, <<word>>>>,
                  handle_unrecognised_command(ps, disk, author, word, noticed, org, jam, sent))
    /\ UNCHANGED accepted

\* a message in a guild channel that starts with no "!": Some(_), or None for
\* a message without a word
MessageCreateNoCommand ==
    /\ Receiving
    /\ \E author \in Users, mentioned \in BOOLEAN :
       \E org \in (IF mentioned THEN RoleAnswers ELSE {"unasked"}) :
       \E jam \in (IF org = "no" THEN RoleAnswers ELSE {"unasked"}) :
       \E sent \in (IF mentioned /\ "err" \notin {org, jam} THEN BOOLEAN ELSE {FALSE}) :
          Handled(<<"nocommand", author, <<>>>>,
                  handle_no_command(ps, disk, author, mentioned, org, jam, sent))
    /\ UNCHANGED accepted

(***************************************************************************)
(* eula.rs: the EULA message and its acceptance                            *)
(***************************************************************************)
\* handle_set_eula: as handle_set_reaction_message without the reactions; the
\* store is locked by a let before set_eula, to the end of the handler
handle_set_eula(s, d, author_id, rest_command, org, fetch, sv) ==
    LET caps == CHANNEL_MENTION_REGEX_captures(rest_command[1])
        channel_id_num == parse_u64(caps)
        messege_id_num == parse_u64(rest_command[2])
        channel_id == channel_id_num[2]
        message_id == messege_id_num[2]
        h == << RoleCall(author_id, "Organizer", org) >>
        f == Append(h, FetchCall(channel_id, message_id, fetch))
        all == f \o << LockCall, StoreEntry("set_eula", sv) >>
        set == set_eula(s, d, channel_id, message_id, sv)
    IN IF org = "err" THEN Out(s, d, h, <<>>, "Err")
       ELSE IF org = "no"
            THEN Out(s, d, h, <<Reply(author_id, "LackOrganizerEula", <<>>, 0)>>, "Ok")
       ELSE IF Len(rest_command) < 2
            THEN Out(s, d, h, <<Reply(author_id, "ProperUsageEula", <<>>, 0)>>, "Ok")
       ELSE IF caps = <<>> \/ channel_id_num[1] = "Err"
            THEN Out(s, d, h, <<Reply(author_id, "InvalidChannelReferenceEula", <<>>, 0)>>, "Ok")
       ELSE IF messege_id_num[1] = "Err"
            THEN Out(s, d, h, <<Reply(author_id, "MessageIdNotNumberEula", <<>>, 0)>>, "Ok")
       ELSE IF fetch = "err"
            THEN Out(s, d, f, <<Reply(author_id, "NoMessageFound", message_id, channel_id)>>, "Ok")
       \* response.unwrap()
       ELSE IF fetch = "none" THEN Out(s, d, f, <<>>, "Panic")
       ELSE IF set.ok
            THEN Out(set.ps, set.disk, all,
                     <<Reply(author_id, "EulaSet", message_id, channel_id)>>, "Ok")
            ELSE Out(set.ps, set.disk, all,
                     <<Reply(author_id, "CouldNotSetEula", <<>>, 0)>>, "Ok")

MessageCreateSetEula ==
    /\ Receiving
    /\ \E author \in Users, rest \in RoleAssignArgs, org \in RoleAnswers :
       \E fetch \in (IF FetchReaches(rest, org) THEN FetchAnswers ELSE {"unasked"}) :
       \E sv \in (IF fetch = "ok" THEN SaveOutcomes ELSE {"unasked"}) :
          Handled(<<"seteula", author, rest>>,
                  handle_set_eula(ps, disk, author, rest, org, fetch, sv))
    /\ UNCHANGED accepted

\* the reaction accepts the EULA: a thumbs-up on the EULA message
AcceptsEula(s, reaction) ==
    /\ reaction.channel_id = get_eula_channel(s)
    /\ reaction.message_id = get_eula_message(s)
    /\ reaction.emoji = <<"Unicode", "thumbsup">>

\* handle_accept_eula: reaction.member is unwrapped, http.roles is followed by
\* `?`, and the first role named as JAMMER is added to the reactor
handle_accept_eula(s, d, reaction, has_member, roles, add) ==
    LET c1 == << LockCall, RolesCall(roles) >>
        role == FirstNamed(roles[2], to_lowercase(JAMMER))
    IN IF ~AcceptsEula(s, reaction) THEN Out(s, d, <<LockCall>>, <<>>, "Ok")
       ELSE IF ~has_member THEN Out(s, d, <<LockCall>>, <<>>, "Panic")
       ELSE IF roles[1] = "err" THEN Out(s, d, c1, <<>>, "Err")
       ELSE IF role.id = 0 THEN Out(s, d, c1, <<>>, "Ok")
       ELSE Out(s, d, Append(c1, AddRoleCall(reaction.user_id, role.id, add)), <<>>, "Ok")

\* Event::ReactionAdd outside a private channel, as main.rs has it
ReactionAddEula ==
    /\ Receiving
    /\ \E reaction \in Reactions_ :
       \E has_member \in (IF AcceptsEula(ps, reaction) THEN BOOLEAN ELSE {TRUE}) :
       \E roles \in (IF AcceptsEula(ps, reaction) /\ has_member
                     THEN RolesAnswers ELSE {Unasked}) :
       \E add \in (IF roles[1] = "ok" /\ FirstNamed(roles[2], to_lowercase(JAMMER)).id # 0
                   THEN MemberRoleAnswers ELSE {"unasked"}) :
          Handled(<<"reaction_add_eula", reaction.user_id, reaction>>,
                  handle_accept_eula(ps, disk, reaction, has_member, roles, add))
    /\ UNCHANGED accepted

CommandTeam == [game_name |-> <<"a">>, category_id |-> 1, text_id |-> 2, voice_id |-> 3]

CommandStores ==
    { DefaultState,
      [ theme_ideas |-> [u \in Users |-> <<"a">>],
        channel_creators |-> MapInsert(<<>>, 1, CommandTeam),
        role_assign_channel_id |-> 1,
        role_assign_message_id |-> 1,
        eula_channel_id |-> 2,
        eula_message_id |-> 2 ] }

CommandInit ==
    /\ ps \in CommandStores
    /\ disk = IF ps = DefaultState THEN NoFile ELSE to_json(ps)
    /\ main = "running"
    /\ pc = "idle"
    /\ ev = <<"none">>
    /\ calls = <<>>
    /\ replies = <<>>
    /\ result = "Ok"
    /\ accepted = <<>>
    /\ NoTasks

CommandNext ==
    \/ IsPmFails
    \/ MessageCreatePm
    \/ MessageCreateCreateChannels
    \/ CreateChannelsChecked
    \/ CreateChannelsCompleted
    \/ MessageCreateRenameChannels
    \/ MessageCreateRemoveChannels
    \/ MessageCreateSetRoleAssign
    \/ MessageCreateRole
    \/ MessageCreateLeave
    \/ MessageCreateGenerateTheme
    \/ MessageCreateShowAllThemes
    \/ MessageCreateSetEula
    \/ MessageCreateHelp
    \/ MessageCreateUnrecognised
    \/ MessageCreateNoCommand
    \/ ReactionAdd
    \/ ReactionRemove
    \/ ReactionAddEula
    \/ MainReturnsErr
    \/ MainPanics

CommandSpec == CommandInit /\ [][CommandNext]_vars

(***************************************************************************)
(* C21: !role and !leave accept a name in any letter case                  *)
(***************************************************************************)
\* a and b are the same text but for the case of their letters
SameButCase(a, b) ==
    /\ Len(a) = Len(b)
    /\ \A i \in 1..Len(a) :
          \/ a[i] = b[i]
          \/ \E k \in 1..Len(UpperCase) : {a[i], b[i]} = {UpperCase[k], LowerCase[k]}

\* the roles one may ask for, as the roles module names them
AllowList ==
    { PROGRAMMER, ARTIST_2D, ARTIST_3D, SOUND_DESIGNER, MUSICIAN, IDEA_GUY,
      BOARD_GAMES, PLAY_TESTER }

RoleRequests(c) ==
    SelectSeq(c, LAMBDA e : e[1] \in {"roles", "guild_member", "add_guild_member_role",
                                      "remove_guild_member_role"})

\* C21: when !role or !leave has been handled, with the arguments joined by
\* single spaces as the name: if the name is one of the allow-list but for
\* the case of its letters, the handler went on to look the role up and did
\* not send the notice of the valid roles; if it is not (or there is no
\* argument), the handler made no role lookup, no grant and no revoke request
\* and sent the notice of the valid roles.
C21_AllowListIgnoresCase ==
    (pc = "handled" /\ ev[1] \in {"role", "leave"}) =>
        IF Len(ev[3]) > 0 /\ \E n \in AllowList : SameButCase(join(ev[3]), n)
        THEN /\ calls # <<>>
             /\ calls[1][1] = "roles"
             /\ \A i \in 1..Len(replies) : replies[i][2] # "ValidRoles"
        ELSE /\ RoleRequests(calls) = <<>>
             /\ replies = <<Reply(ev[2], "ValidRoles", <<>>, <<>>)>>

\* an upper-case name of the list was taken, by !role and by !leave
C21_Witness ==
    /\ pc = "handled"
    /\ ev[1] = "leave"
    /\ ev[3] = << <<"2", "d">>, <<"A", "R", "T", "I", "S", "T">> >>
    /\ Len(replies) = 1
    /\ replies[1][2] = "Stripped"

(***************************************************************************)
(* C22: a grant of a role held and a revoke of a role lacked               *)
(***************************************************************************)
\* the guild's roles and the member's roles, as the platform answered them
\* while the event was handled
RolesAnswered(c) == CallsOf(c, "roles") # <<>> /\ CallsOf(c, "roles")[1][2][1] = "ok"
MemberAnswered(c) ==
    CallsOf(c, "guild_member") # <<>> /\ CallsOf(c, "guild_member")[1][3][1] = "ok"
GuildRoles(c) == CallsOf(c, "roles")[1][2][2]
RolesHeld(c) == CallsOf(c, "guild_member")[1][3][2]

\* the role a name stands for: the first of the guild's roles of that name,
\* the case of the letters apart
Named(g, name) == { i \in 1..Len(g) : SameButCase(g[i].name, name) }
RoleAskedFor(g, name) == g[CHOOSE i \in Named(g, name) : \A k \in Named(g, name) : i <= k]

MemberRoleRequests(c) ==
    SelectSeq(c, LAMBDA e : e[1] \in {"add_guild_member_role", "remove_guild_member_role"})

\* C22: when !role was handled for a role of the guild that the caller holds,
\* or !leave for one the caller does not hold, the handler asked the platform
\* neither to add nor to remove a role of the member (so the roles held stay
\* the ones the platform reported), and its one reply is neither the reply of
\* a grant or revoke that was made, nor the notice of the valid roles, nor
\* the reply for a name no role of the guild has.
C22_GrantAndRevokeIdempotent ==
    ( /\ pc = "handled"
      /\ ev[1] \in {"role", "leave"}
      /\ RolesAnswered(calls) /\ MemberAnswered(calls)
      /\ Named(GuildRoles(calls), join(ev[3])) # {}
      /\ (ev[1] = "role") <=>
            (RoleAskedFor(GuildRoles(calls), join(ev[3])).id \in RolesHeld(calls)) )
    => /\ MemberRoleRequests(calls) = <<>>
       /\ Len(replies) = 1
       /\ replies[1][2] \notin {"Assigned", "Stripped", "ValidRoles"}
       /\ replies[1][3][1] \notin {"Invalid role name", "Discord error"}
       /\ replies[1][3][2] = RoleAskedFor(GuildRoles(calls), join(ev[3])).name

\* !role for a role held, asked for in upper case
C22_Witness ==
    /\ pc = "handled"
    /\ ev[1] = "role"
    /\ ev[3] = << <<"P", "R", "O", "G", "R", "A", "M", "M", "E", "R">> >>
    /\ RolesAnswered(calls) /\ MemberAnswered(calls)
    /\ 1 \in RolesHeld(calls)
    /\ replies = <<Reply(ev[2], "CouldntAssign", <<"Role already set", PROGRAMMER>>, <<>>)>>

(***************************************************************************)
(* C23: reactions the role assignment ignores                              *)
(***************************************************************************)
OnTrackedMessage ==
    /\ ev[3].channel_id = get_role_assign_channel(ps)
    /\ ev[3].message_id = get_role_assign_message(ps)

\* the emoji of the table of emoji_to_role
TableEmoji ==
    { <<"Unicode", e>> :
        e \in {"computer", "palette", "moyai", "speaker", "notes", "bulb", "die"} }

\* C23: when a reaction added to or removed from the role assignment message
\* has been handled, and its emoji is not in the table or the reaction is the
\* bot's own, the handler asked the platform neither to add nor to remove a
\* role.
C23_UnmappedAndOwnReactionsIgnored ==
    ( /\ pc = "handled"
      /\ ev[1] \in {"reaction_add", "reaction_remove"}
      /\ OnTrackedMessage
      /\ (ev[3].emoji \notin TableEmoji \/ ev[3].user_id = current_user) )
    => MemberRoleRequests(calls) = <<>>

(***************************************************************************)
(* C24: generation from fewer than two ideas, and from exactly two         *)
(***************************************************************************)
Generated == pc = "handled" /\ ev[1] = "generatetheme" /\ calls[1][4] = "yes"
IdeaUsers == DOMAIN ps.theme_ideas

\* C24: when !generatetheme of an organizer has been handled with no idea or
\* one idea stored, the reply is the not-enough-ideas message; with the ideas
\* of exactly two users stored, the reply is a theme made of those two ideas;
\* and whenever the ideas of exactly two users are stored and the bot waits
\* for an event, a generation that puts the one first and a generation that
\* puts the other first can both be the next step.
C24_FewIdeasAndTwoIdeas ==
    /\ (Generated /\ Cardinality(IdeaUsers) < 2) =>
           replies = <<Reply(ev[2], "NotEnough", <<>>, <<>>)>>
    /\ (Generated /\ Cardinality(IdeaUsers) = 2) =>
           \E u, v \in IdeaUsers :
              /\ u # v
              /\ replies = <<Reply(ev[2], "Theme", ps.theme_ideas[u], ps.theme_ideas[v])>>
    /\ (pc = "idle" /\ main = "running" /\ Cardinality(IdeaUsers) = 2) =>
           \A u, v \in IdeaUsers :
              u # v => ENABLED ( /\ MessageCreateGenerateTheme
                                 /\ replies' # <<>>
                                 /\ replies'[1][2] = "Theme"
                                 /\ replies'[1][3] = ps.theme_ideas[u]
                                 /\ replies'[1][4] = ps.theme_ideas[v] )

\* two different ideas of two users, the later user's idea first
C24_Witness ==
    /\ Generated
    /\ IdeaUsers = {1, 3}
    /\ replies = <<Reply(ev[2], "Theme", <<"b">>, <<"a">>)>>
    /\ ps.theme_ideas[1] = <<"a">>

(***************************************************************************)
(* C25: the two ideas of a theme                                           *)
(***************************************************************************)
\* C25: when !generatetheme has been handled and the reply is a theme, its
\* two ideas are the stored ideas of two different users (who may have sent
\* in the same word); no user's idea is used for both.
C25_TwoIdeasOfTwoUsers ==
    (Generated /\ replies # <<>> /\ replies[1][2] = "Theme") =>
        \E u, v \in IdeaUsers :
           /\ u # v
           /\ replies[1][3] = ps.theme_ideas[u]
           /\ replies[1][4] = ps.theme_ideas[v]

\* three ideas stored; the third and the first make the theme
C25_Witness ==
    /\ Generated
    /\ Cardinality(IdeaUsers) = 3
    /\ ps.theme_ideas[1] # ps.theme_ideas[3]
    /\ ps.theme_ideas[2] \notin {ps.theme_ideas[1], ps.theme_ideas[3]}
    /\ replies = <<Reply(ev[2], "Theme", ps.theme_ideas[3], ps.theme_ideas[1])>>

(***************************************************************************)
(* C26: the number of replies to one message                               *)
(***************************************************************************)
\* C26 as stated: whatever event has been handled, at most one message was
\* sent in reply.
C26_AtMostOneReply == Len(replies) <= 1

\* C26: whatever event has been handled, at most one message was sent in
\* reply, but for a command the bot does not know: that one is answered with
\* the notice that it is unrecognised and then with the help message.
C26_AtMostOneReplyButUnrecognised ==
    /\ Len(replies) <= (IF ev[1] = "unrecognised" THEN 2 ELSE 1)
    /\ (ev[1] = "unrecognised" /\ Len(replies) = 2) =>
          /\ replies[1][2] = "UnrecognisedCommand"
          /\ replies[2][2] \in {"HelpOrganizer", "HelpJammer", "HelpStandard"}

\* an unrecognised command answered with both messages
C26_Witness ==
    /\ pc = "handled"
    /\ ev[1] = "unrecognised"
    /\ Len(replies) = 2
    /\ result = "Ok"

BadArguments(e) ==
    LET rest == e[3]
    IN CASE e[1] \in {"createchannels", "renamechannels"} ->
               Len(rest) = 0 \/ \E i \in 1..Len(join(rest)) : join(rest)[i] \in InvalidChars
         [] e[1] \in {"role", "leave"} ->
               Len(rest) = 0 \/ ~ \E n \in AllowList : SameButCase(join(rest), n)
         [] e[1] = "removechannels" ->
               \/ Len(rest) = 0
               \/ USER_MENTION_REGEX_captures(rest[1]) = <<>>
               \/ parse_u64(USER_MENTION_REGEX_captures(rest[1]))[1] = "Err"
         [] e[1] \in {"setroleassign", "seteula"} ->
               \/ Len(rest) < 2
               \/ CHANNEL_MENTION_REGEX_captures(rest[1]) = <<>>
               \/ parse_u64(CHANNEL_MENTION_REGEX_captures(rest[1]))[1] = "Err"
               \/ parse_u64(rest[2])[1] = "Err"
         [] OTHER -> FALSE

\* the caller has the role the command asks for
Permitted(e, c) == e[1] \in {"role", "leave"} \/ RoleCheckPassed(SelectSeq(c, LAMBDA x : x[1] = "has_role"))

\* C28: when a command with a missing or invalid argument, sent by a caller
\* who may use the command, is handled, a reply is sent, the store and its
\* file stay as they were, and nothing but role lookups is asked of the
\* platform.
C28_BadArgumentsReported ==
    [][ (pc = "idle" /\ pc' = "handled" /\ BadArguments(ev') /\ Permitted(ev', calls'))
        => /\ replies' # <<>>
           /\ ps' = ps /\ disk' = disk
           /\ \A i \in 1..Len(calls') : calls'[i][1] = "has_role" ]_vars

(***************************************************************************)
(* C29: commands that ask for a role                                       *)
(***************************************************************************)
\* the role lookups said that the caller lacks the role(s) of the command
Denied(e, c) ==
    \/ /\ e[1] \in {"removechannels", "generatetheme", "showallthemes", "seteula",
                    "setroleassign"}
       /\ Len(c) > 0
       /\ c[1] = RoleCall(e[2], "Organizer", "no")
    \/ /\ e[1] \in {"createchannels", "renamechannels"}
       /\ Len(c) > 1
       /\ c[1] = RoleCall(e[2], "Jammer", "no")
       /\ c[2] = RoleCall(e[2], "Organizer", "no")

PermissionReplies ==
    {"NeedOrganizer", "LackOrganizer", "LackOrganizerGenerate", "LackOrganizerShowAll",
     "LackOrganizerEula", "SecretCommand"}

\* C29: when one of these commands of a caller without the role is handled,
\* the store and its file stay as they were, the platform is asked nothing
\* but the role lookups, and the one reply is the permission message of the
\* command, to the caller, with no stored idea in it.
C29_RoleEnforced ==
    [][ (pc = "idle" /\ pc' = "handled" /\ Denied(ev', calls'))
        => /\ ps' = ps /\ disk' = disk
           /\ \A i \in 1..Len(calls') : calls'[i][1] = "has_role"
           /\ Len(replies') = 1
           /\ replies'[1][1] = ev'[2]
           /\ replies'[1][2] \in PermissionReplies
           /\ replies'[1][3] = <<>> ]_vars

\* !showallthemes of a caller who is no organizer, with ideas stored
C29_Witness ==
    /\ pc = "handled"
    /\ ev[1] = "showallthemes"
    /\ DOMAIN ps.theme_ideas # {}
    /\ calls = << RoleCall(ev[2], "Organizer", "no") >>
    /\ replies = <<Reply(ev[2], "LackOrganizerShowAll", <<>>, 0)>>

(***************************************************************************)
(* C30: the store lock and the requests to the platform                    *)
(***************************************************************************)
\* C30: whatever event has been handled, its handler made no request to the
\* platform and sent no reply while it held the store lock: after a lock
\* that outlives its statement, the trace holds store calls only and no
\* reply was sent.
C30_NoRequestUnderLock ==
    \A i \in 1..Len(calls) :
        calls[i] = LockCall =>
            /\ \A k \in (i + 1)..Len(calls) : calls[k][1] \in StoreOps
            /\ replies = <<>>

(***************************************************************************)
(* state.rs: the Mutex around the store.  Every access in the handlers is  *)
(* PersistentState::instance().lock().unwrap().<operation>(..); a mutation *)
(* updates the record and then saves it: File::create, then write_all.     *)
(* main.rs runs one handler at a time, so the program has one caller at a  *)
(* time; LockSpec lets MaxTasks callers try at any moment, which is more   *)
(* than the loop allows, and steps through each operation.                 *)
(***************************************************************************)
LockOps ==
    { <<"has_created_channel", u>> : u \in Users }
    \cup { <<"register_channel_creation", u, CommandTeam>> : u \in Users }
    \cup { <<"remove_channel", u>> : u \in Users }
    \cup { <<"set_role_assign", 1, 1>> }

\* the operations that take &mut self and end with self.save()
LockMutations == {"register_channel_creation", "remove_channel", "set_role_assign"}

\* the record after the in-memory half of the mutation op
Updated(s, op) ==
    CASE op[1] = "register_channel_creation" ->
             register_channel_creation(s, NoFile, op[2], op[3], "create_failed").ps
      [] op[1] = "remove_channel" -> remove_channel(s, NoFile, op[2], "create_failed").ps
      [] op[1] = "set_role_assign" ->
             set_role_assign(s, NoFile, op[2], op[3], "create_failed").ps
      [] OTHER -> s

LockFrame == UNCHANGED <<main, pc, ev, calls, replies, result, accepted>>

\* a caller reaches PersistentState::instance().lock()
StoreCalled(t, op) ==
    /\ task[t].pc = "idle"
    /\ task' = [task EXCEPT ![t] = [pc |-> "waiting", op |-> op]]
    /\ UNCHANGED <<ps, disk, lock>>
    /\ LockFrame

\* a variant of lock() that does not wait for the guard to be dropped
MutexLock_barges(t) ==
    /\ task[t].pc = "waiting"
    /\ lock' = t
    /\ task' = [task EXCEPT ![t].pc = "locked"]
    /\ UNCHANGED <<ps, disk>>
    /\ LockFrame

\* Mutex::lock returns the guard once no other caller holds it
MutexLock(t) ==
    /\ task[t].pc = "waiting"
    /\ lock = 0
    /\ lock' = t
    /\ task' = [task EXCEPT ![t].pc = "locked"]
    /\ UNCHANGED <<ps, disk>>
    /\ LockFrame

\* a read: has_created_channel
StoreRead(t) ==
    /\ task[t].pc = "locked"
    /\ task[t].op[1] \notin LockMutations
    /\ task' = [task EXCEPT ![t].pc = "done"]
    /\ UNCHANGED <<ps, disk, lock>>
    /\ LockFrame

\* the first statement(s) of a mutation: the record changes in memory
StoreUpdate(t) ==
    /\ task[t].pc = "locked"
    /\ task[t].op[1] \in LockMutations
    /\ ps' = Updated(ps, task[t].op)
    /\ task' = [task EXCEPT ![t].pc = "updated"]
    /\ UNCHANGED <<disk, lock>>
    /\ LockFrame

\* save: File::create(FILENAME) truncates the file, or fails and save returns
FileCreate(t) ==
    /\ task[t].pc = "updated"
    /\ \/ /\ disk' = save(ps, disk, "write_failed").disk
          /\ task' = [task EXCEPT ![t].pc = "created"]
       \/ /\ disk' = save(ps, disk, "create_failed").disk
          /\ task' = [task EXCEPT ![t].pc = "done"]
    /\ UNCHANGED <<ps, lock>>
    /\ LockFrame

\* save: file.write_all(..) writes the document, or fails
FileWrite(t) ==
    /\ task[t].pc = "created"
    /\ \E outcome \in {"ok", "write_failed"} : disk' = save(ps, disk, outcome).disk
    /\ task' = [task EXCEPT ![t].pc = "done"]
    /\ UNCHANGED <<ps, lock>>
    /\ LockFrame

\* the guard is dropped at the end of the statement
MutexUnlock(t) ==
    /\ task[t].pc = "done"
    /\ lock' = 0
    /\ task' = [task EXCEPT ![t] = IdleTask]
    /\ UNCHANGED <<ps, disk>>
    /\ LockFrame

LockNext ==
    \/ \E t \in Tasks, op \in LockOps : StoreCalled(t, op)
    \/ \E t \in Tasks : MutexLock(t)
    \/ \E t \in Tasks : StoreRead(t)
    \/ \E t \in Tasks : StoreUpdate(t)
    \/ \E t \in Tasks : FileCreate(t)
    \/ \E t \in Tasks : FileWrite(t)
    \/ \E t \in Tasks : MutexUnlock(t)

LockSpec == Init /\ [][LockNext]_vars

(***************************************************************************)
(* C31: mutual exclusion of the store operations                           *)
(***************************************************************************)
\* caller t is inside a store operation
Inside(t) == task[t].pc \notin {"idle", "waiting"}

\* C31: at any time at most one caller is inside a store operation, and it
\* holds the lock; while a caller is inside one, from its first statement to
\* the end of its save, no other caller reads or changes the record or the
\* file: every change of either is a step of the caller that holds the lock.
C31_StoreAccessExclusive ==
    /\ [](/\ Cardinality({t \in Tasks : Inside(t)}) <= 1
          /\ \A t \in Tasks : Inside(t) => lock = t)
    /\ [][ /\ \A t, u \in Tasks :
                (Inside(t) /\ u # t) => (Inside(u)' = Inside(u) /\ ~Inside(u))
           /\ (ps' # ps \/ disk' # disk) =>
                \E t \in Tasks : lock = t /\ Inside(t) /\ task'[t] # task[t] ]_vars

\* a caller is in the middle of its save, the file truncated and not yet
\* written, while another caller waits at lock() with a mutation
C31_Witness ==
    \E t, u \in Tasks :
        /\ t # u
        /\ task[t].pc = "created"
        /\ task[t].op[1] = "remove_channel"
        /\ disk = Truncated
        /\ lock = t
        /\ task[u].pc = "waiting"
        /\ task[u].op[1] = "register_channel_creation"

(***************************************************************************)
(* C32: the life of a user's team record                                   *)
(***************************************************************************)
\* the record of user u after differs from the one before
TeamChanged(u) ==
    /\ has_created_channel(ps, u)
    /\ has_created_channel(ps', u)
    /\ get_channel_info(ps', u) # get_channel_info(ps, u)

\* the step ends a removechannels that names user u
RemovalOf(u) ==
    /\ ev'[1] = "removechannels"
    /\ Len(ev'[3]) > 0
    /\ USER_MENTION_REGEX_captures(ev'[3][1]) # <<>>
    /\ parse_u64(USER_MENTION_REGEX_captures(ev'[3][1])) = <<"Ok", u>>

\* C32: in every step, a user's team record appears only at the end of a
\* createchannels of that user, who had none when it started; it changes only
\* in a renamechannels of that user, who keeps a record with the same three
\* channels; it disappears only in a removechannels that names that user; and
\* no renamechannels adds or drops a record.
C32_TeamLifecycle ==
    [][ \A u \in Users :
          /\ (~has_created_channel(ps, u) /\ has_created_channel(ps', u))
                => (ev' = ev \/ pc = "idle") /\ ev'[1] = "createchannels" /\ ev'[2] = u
          /\ TeamChanged(u)
                => /\ ev'[1] = "renamechannels" /\ ev'[2] = u
                   /\ [get_channel_info(ps', u) EXCEPT !.game_name = <<>>]
                        = [get_channel_info(ps, u) EXCEPT !.game_name = <<>>]
          /\ (has_created_channel(ps, u) /\ ~has_created_channel(ps', u)) => RemovalOf(u)
          /\ ev'[1] = "renamechannels"
                => DOMAIN ps'.channel_creators = DOMAIN ps.channel_creators ]_vars

\* after a team was created and removed again (the file holds a document
\* with no team, no idea and no reference), a renamechannels of a Jammer with
\* a valid name finds no record and creates none
C32_Witness ==
    /\ pc = "handled"
    /\ ev[1] = "renamechannels"
    /\ RoleCheckPassed(calls)
    /\ Len(ev[3]) > 0
    /\ ~INVALID_REGEX_is_match(join(ev[3]))
    /\ ps = DefaultState
    /\ disk = to_json(DefaultState)
    /\ replies = <<Reply(ev[2], "NotCreatedYet", <<>>, 0)>>

(***************************************************************************)
(* state.rs: the record of a new process.  The first use of                *)
(* PersistentState::instance() runs load(): the default record when there  *)
(* is no state.json, else the file's document, and load().unwrap() panics  *)
(* when the file holds no document.  RestartSpec is StoreSpec with the     *)
(* process ending at any time and a new one starting; calls is the history *)
(* of the running process, its load first.                                 *)
(***************************************************************************)
\* serde_json::from_str(&content): the maps are rebuilt from the members of
\* the document; a file that was cut short holds no document
from_str(d) ==
    IF d[1] # "json" THEN <<"Err">>
    ELSE <<"Ok",
           [ theme_ideas |->
               [u \in {m[1] : m \in d[2]} |-> (CHOOSE m \in d[2] : m[1] = u)[2]],
             channel_creators |->
               [u \in {m[1] : m \in d[3]} |->
                   LET m == CHOOSE x \in d[3] : x[1] = u
                   IN [game_name |-> m[2], category_id |-> m[3], text_id |-> m[4],
                       voice_id |-> m[5]]],
             role_assign_channel_id |-> d[4],
             role_assign_message_id |-> d[5],
             eula_channel_id |-> d[6],
             eula_message_id |-> d[7] ]>>

\* PersistentState::load
load(d) == IF d = NoFile THEN <<"Ok", DefaultState>> ELSE from_str(d)

\* the process ends: main returns, panics or is stopped
ProcessEnds ==
    /\ main = "running"
    /\ main' = "exited"
    /\ UNCHANGED <<ps, disk, pc, ev, calls, replies, result, accepted, lock, task>>

\* a new process makes its first use of the store: Mutex::new(load().unwrap())
ProcessStarts ==
    /\ main = "exited"
    /\ LET l == load(disk)
           entry == <<"load", 0, IF l[1] = "Ok" THEN l[2] ELSE <<>>, l[1]>>
       IN /\ main' = IF l[1] = "Ok" THEN "running" ELSE "panicked"
          /\ ps' = IF l[1] = "Ok" THEN l[2] ELSE ps
          /\ ev' = entry
          /\ calls' = <<entry>>
          /\ result' = IF l[1] = "Ok" THEN "Ok" ELSE "Panic"
    /\ UNCHANGED <<disk, pc, replies, accepted, lock, task>>

RestartNext ==
    \/ StoreRegister
    \/ StoreRemove
    \/ StoreSetRoleAssign
    \/ StoreAddTheme
    \/ ProcessEnds
    \/ ProcessStarts

RestartSpec == Init /\ [][RestartNext]_vars

(***************************************************************************)
(* C33: what a new process loads                                           *)
(***************************************************************************)
\* the record the process of history c started with
LoadedRecord(c) == IF c # <<>> /\ c[1][1] = "load" THEN c[1][3] ELSE DefaultState

\* the in-memory record after the first k entries of history c
RECURSIVE RecordAfter(_, _)
RecordAfter(c, k) ==
    IF k = 0 \/ c[k][1] = "load" THEN LoadedRecord(c)
    ELSE ExpectedMutation(RecordAfter(c, k - 1), c[k])

\* the in-memory record as of the last save of history c that succeeded (the
\* record the process started with, when none did)
LastSaved(c) ==
    LET oks == {i \in 1..Len(c) : c[i][1] # "load" /\ c[i][4] = "Ok"}
    IN IF oks = {} THEN LoadedRecord(c)
       ELSE RecordAfter(c, CHOOSE i \in oks : \A j \in oks : j <= i)

\* C33: when a new process makes its first use of the store, it gets a
\* record: the in-memory record of the previous process as of its last save
\* that succeeded, equal to it field by field, and the default record when
\* there is no file.
C33_LoadedIsLastSaved ==
    [][ (main = "exited" /\ main' # "exited") =>
            /\ main' = "running"
            /\ ps' = LastSaved(calls)
            /\ ps'.theme_ideas = LastSaved(calls).theme_ideas
            /\ ps'.channel_creators = LastSaved(calls).channel_creators
            /\ get_role_assign_channel(ps') = get_role_assign_channel(LastSaved(calls))
            /\ get_role_assign_message(ps') = get_role_assign_message(LastSaved(calls))
            /\ (disk = NoFile => ps' = DefaultState) ]_vars

(***************************************************************************)
(* main.rs: handle_event and handle_potential_command, from the message to *)
(* the handler.  DispatchSpec starts with a message that has arrived       *)
(* (ev = <<"message", author, content, mentions the bot, is_pm's answer>>)  *)
(* and handles it.                                                         *)
(***************************************************************************)
\* str::split_ascii_whitespace(): the maximal runs of non-whitespace
\* characters, in order
RECURSIVE SplitWords(_, _)
SplitWords(s, word) ==
    IF s = <<>> THEN (IF word = <<>> THEN <<>> ELSE <<word>>)
    ELSE IF IsAsciiWhitespace(Head(s))
         THEN (IF word = <<>> THEN <<>> ELSE <<word>>) \o SplitWords(Tail(s), <<>>)
    ELSE SplitWords(Tail(s), Append(word, Head(s)))

split_ascii_whitespace(s) == SplitWords(s, <<>>)

\* the Some("!...") patterns of the match in handle_potential_command
CommandTable ==
    { [token |-> <<"!", "h", "e", "l", "p">>,
       arm |-> "help"],
      [token |-> <<"!", "c", "r", "e", "a", "t", "e", "c", "h", "a", "n", "n", "e", "l", "s">>,
       arm |-> "createchannels"],
      [token |-> <<"!", "r", "o", "l", "e">>,
       arm |-> "role"],
      [token |-> <<"!", "l", "e", "a", "v", "e">>,
       arm |-> "leave"],
      [token |-> <<"!", "g", "e", "n", "e", "r", "a", "t", "e", "t", "h", "e", "m", "e">>,
       arm |-> "generatetheme"],
      [token |-> <<"!", "s", "e", "t", "e", "u", "l", "a">>,
       arm |-> "seteula"] }

\* a variant that looks the first word up before it asks whether the channel
\* is private
handle_event_arm_table_first(author, private, words) ==
    IF author = current_user THEN "ignored"
    ELSE IF words # <<>> /\ \E c \in CommandTable : c.token = words[1]
         THEN (CHOOSE c \in CommandTable : c.token = words[1]).arm
    ELSE IF private = "err" THEN "is_pm"
    ELSE IF private = "yes" THEN "pm"
    ELSE IF words = <<>> THEN "none"
    ELSE IF Head(words[1]) = "!" THEN "unrecognised"
    ELSE "nocommand"

\* the branch of handle_event and handle_potential_command that handles a
\* message: private is what is_pm answered
handle_event_arm(author, private, words) ==
    IF author = current_user THEN "ignored"
    ELSE IF private = "err" THEN "is_pm"
    ELSE IF private = "yes" THEN "pm"
    ELSE IF words = <<>> THEN "none"
    ELSE IF \E c \in CommandTable : c.token = words[1]
         THEN (CHOOSE c \in CommandTable : c.token = words[1]).arm
    ELSE IF Head(words[1]) = "!" THEN "unrecognised"
    ELSE "nocommand"

\* the texts of the messages that arrive
DispatchMessages ==
    { <<>>,
      <<"h", "i">>,
      <<"h", "i", " ", "t", "h", "e", "r", "e">>,
      <<"!", "h", "e", "l", "p">>,
      <<"!", "h", "e", "l", "p", " ", "m", "e">>,
      <<" ", "!", "h", "e", "l", "p">>,
      <<"!", "H", "e", "l", "p">>,
      <<"!", "c", "r", "e", "a", "t", "e", "c", "h", "a", "n", "n", "e", "l", "s", " ", "a">>,
      <<"!", "r", "e", "n", "a", "m", "e", "c", "h", "a", "n", "n", "e", "l", "s", " ", "a">>,
      <<"!", "r", "e", "m", "o", "v", "e", "c", "h", "a", "n", "n", "e", "l", "s", " ", "<", "@", "!", "1", ">">>,
      <<"!", "r", "o", "l", "e", " ", "p", "r", "o", "g", "r", "a", "m", "m", "e", "r">>,
      <<"!", "l", "e", "a", "v", "e", " ", "p", "r", "o", "g", "r", "a", "m", "m", "e", "r">>,
      <<"!", "g", "e", "n", "e", "r", "a", "t", "e", "t", "h", "e", "m", "e">>,
      <<"!", "s", "h", "o", "w", "a", "l", "l", "t", "h", "e", "m", "e", "s">>,
      <<"!", "s", "e", "t", "e", "u", "l", "a", " ", "<", "#", "2", ">", " ", "2">>,
      <<"!", "s", "e", "t", "r", "o", "l", "e", "a", "s", "s", "i", "g", "n", " ", "<", "#", "1", ">", " ", "1">>,
      <<"!", "x">>,
      <<"!">> }

\* what is_pm answers for the channel of a message: private, not private, or
\* the lookup of the channel fails
PmAnswers == {"yes", "no", "err"}

DispatchInit ==
    /\ ps \in CommandStores
    /\ disk = IF ps = DefaultState THEN NoFile ELSE to_json(ps)
    /\ main = "running"
    /\ pc = "idle"
    /\ \E author \in Users \cup {current_user}, content \in DispatchMessages,
          mentioned \in BOOLEAN, private \in PmAnswers :
             ev = <<"message", author, content, mentioned, private>>
    /\ calls = <<>>
    /\ replies = <<>>
    /\ result = "Ok"
    /\ accepted = <<>>
    /\ NoTasks

\* the message that waits, its words, and the arm it takes
Arrived == Receiving /\ ev[1] = "message"
Words == split_ascii_whitespace(ev[3])
Takes(arm) == handle_event_arm(ev[2], ev[5], Words) = arm

\* handle_event hands the message to a handler: the event handled is the
\* handler, the author, the arguments the handler is given, and what is_pm
\* answers for the channel of the message
Dispatched(handler, args, o) ==
    Handled(<<handler, ev[2], args, ev[5]>>, o)

\* msg.author.id == current_user.id: nothing is done, is_pm is not asked
DispatchOwnMessage ==
    /\ Arrived
    /\ Takes("ignored")
    /\ Dispatched("ignored", <<>>, Out(ps, disk, <<>>, <<>>, "Ok"))
    /\ UNCHANGED accepted

DispatchIsPmFails ==
    /\ Arrived
    /\ Takes("is_pm")
    /\ Dispatched("is_pm", <<>>, Out(ps, disk, <<>>, <<>>, "Err"))
    /\ UNCHANGED accepted

\* handle_pm: the whole text of the message is the submission
DispatchPm ==
    /\ Arrived
    /\ Takes("pm")
    /\ \E sv \in (IF split_ascii_whitespace_count(ev[3]) = 1
                  THEN SaveOutcomes ELSE {"unasked"}) :
       \E sent \in (IF sv \in {"ok", "unasked"} THEN BOOLEAN ELSE {FALSE}) :
          /\ Dispatched("pm", ev[3], handle_add_theme(ps, disk, ev[2], ev[3], sv, sent))
          /\ accepted' = IF sv = "ok" THEN MapInsert(accepted, ev[2], ev[3]) ELSE accepted

DispatchHelp ==
    /\ Arrived
    /\ Takes("help")
    /\ \E org \in RoleAnswers :
       \E jam \in (IF org = "no" THEN RoleAnswers ELSE {"unasked"}) :
       \E sent \in (IF "err" \in {org, jam} THEN {FALSE} ELSE BOOLEAN) :
          Dispatched("help", <<>>, send_help_message(ps, disk, ev[2], org, jam, sent))
    /\ UNCHANGED accepted

DispatchCreateChannels ==
    /\ Arrived
    /\ Takes("createchannels")
    /\ LET rest == Tail(Words)
       IN \E jam \in RoleAnswers :
          \E org \in (IF jam = "no" THEN RoleAnswers ELSE {"unasked"}) :
          LET go == CreateReaches(ps, ev[2], rest, assert_is_jam(jam, org))
          IN \E cat \in (IF go THEN CreateAnswers(0) ELSE {Unasked}) :
             \E text \in (IF cat[1] = "ok" THEN CreateAnswers(cat[2]) ELSE {Unasked}) :
             \E voice \in (IF text[1] = "ok" THEN CreateAnswers(text[2]) ELSE {Unasked}) :
             \E sv \in (IF voice[1] = "ok" THEN SaveOutcomes ELSE {"unasked"}) :
                Dispatched("createchannels", rest,
                           handle_create_channels(ps, disk, ev[2], rest, jam, org,
                                                  cat, text, voice, sv))
    /\ UNCHANGED accepted

DispatchRole ==
    /\ Arrived
    /\ Takes("role")
    /\ LET rest == Tail(Words)
       IN \E roles \in (IF LooksUp(rest) THEN RolesAnswers ELSE {Unasked}) :
          \E member \in (IF roles[1] = "ok" THEN MemberAnswers ELSE {Unasked}) :
          \E add \in (IF /\ member[1] = "ok"
                         /\ FirstNamed(roles[2], to_lowercase(join(rest))).id
                                \notin member[2] \cup {0}
                      THEN MemberRoleAnswers ELSE {"unasked"}) :
             Dispatched("role", rest,
                        handle_give_role(ps, disk, ev[2], rest, roles, member, add))
    /\ UNCHANGED accepted

DispatchLeave ==
    /\ Arrived
    /\ Takes("leave")
    /\ LET rest == Tail(Words)
       IN \E roles \in (IF LooksUp(rest) THEN RolesAnswers ELSE {Unasked}) :
          \E member \in (IF roles[1] = "ok" THEN MemberAnswers ELSE {Unasked}) :
          \E remove \in (IF /\ member[1] = "ok"
                            /\ FirstNamed(roles[2], to_lowercase(join(rest))).id \in member[2]
                         THEN MemberRoleAnswers ELSE {"unasked"}) :
             Dispatched("leave", rest,
                        handle_remove_role(ps, disk, ev[2], rest, roles, member, remove))
    /\ UNCHANGED accepted

DispatchGenerateTheme ==
    /\ Arrived
    /\ Takes("generatetheme")
    /\ \E org \in RoleAnswers :
       \E theme \in (IF org = "yes" THEN do_theme_generation(ps) ELSE {Unasked}) :
          Dispatched("generatetheme", <<>>,
                     handle_generate_theme(ps, disk, ev[2], org, theme))
    /\ UNCHANGED accepted

DispatchSetEula ==
    /\ Arrived
    /\ Takes("seteula")
    /\ LET rest == Tail(Words)
       IN \E org \in RoleAnswers :
          \E fetch \in (IF FetchReaches(rest, org) THEN FetchAnswers ELSE {"unasked"}) :
          \E sv \in (IF fetch = "ok" THEN SaveOutcomes ELSE {"unasked"}) :
             Dispatched("seteula", rest,
                        handle_set_eula(ps, disk, ev[2], rest, org, fetch, sv))
    /\ UNCHANGED accepted

DispatchUnrecognised ==
    /\ Arrived
    /\ Takes("unrecognised")
    /\ \E noticed \in BOOLEAN :
       \E org \in (IF noticed THEN RoleAnswers ELSE {"unasked"}) :
       \E jam \in (IF org = "no" THEN RoleAnswers ELSE {"unasked"}) :
       \E sent \in (IF noticed /\ "err" \notin {org, jam} THEN BOOLEAN ELSE {FALSE}) :
          Dispatched("unrecognised", <<Words[1]>>,
                     handle_unrecognised_command(ps, disk, ev[2], Words[1], noticed,
                                                 org, jam, sent))
    /\ UNCHANGED accepted

\* Some(_): msg.mentions.contains_key(&current_user.id)
DispatchNoCommand ==
    /\ Arrived
    /\ Takes("nocommand")
    /\ \E org \in (IF ev[4] THEN RoleAnswers ELSE {"unasked"}) :
       \E jam \in (IF org = "no" THEN RoleAnswers ELSE {"unasked"}) :
       \E sent \in (IF ev[4] /\ "err" \notin {org, jam} THEN BOOLEAN ELSE {FALSE}) :
          Dispatched("nocommand", <<>>,
                     handle_no_command(ps, disk, ev[2], ev[4], org, jam, sent))
    /\ UNCHANGED accepted

\* None: a message without a word
DispatchNone ==
    /\ Arrived
    /\ Takes("none")
    /\ Dispatched("none", <<>>, Out(ps, disk, <<>>, <<>>, "Ok"))
    /\ UNCHANGED accepted

DispatchNext ==
    \/ DispatchOwnMessage
    \/ DispatchIsPmFails
    \/ DispatchPm
    \/ DispatchHelp
    \/ DispatchCreateChannels
    \/ DispatchRole
    \/ DispatchLeave
    \/ DispatchGenerateTheme
    \/ DispatchSetEula
    \/ DispatchUnrecognised
    \/ DispatchNoCommand
    \/ DispatchNone
    \/ MainReturnsErr
    \/ MainPanics

DispatchSpec == DispatchInit /\ [][DispatchNext]_vars

(***************************************************************************)
(* C34: private messages are theme submissions                             *)
(***************************************************************************)
SubmissionReplies == {"SingleWord", "Registered", "Replaced"}

\* a message of a user has arrived and this step handles it
HandlesMessage == Arrived /\ pc' = "handled" /\ ev[2] # current_user

\* C34: a message in a private channel is handled by the theme submission
\* handler with its whole text, whatever the text: no role is looked up and
\* every reply is one of the three replies to a submission.  A message in a
\* guild channel is not handled by it: no idea is stored or replaced and no
\* reply is one of those three.
C34_PrivateMessagesAreSubmissions ==
    [][ HandlesMessage =>
          /\ ev[5] = "yes" =>
                /\ ev'[1] = "pm"
                /\ ev'[3] = ev[3]
                /\ \A i \in 1..Len(calls') : calls'[i][1] = "try_add_theme"
                /\ \A i \in 1..Len(replies') : replies'[i][2] \in SubmissionReplies
          /\ ev[5] = "no" =>
                /\ ev'[1] # "pm"
                /\ ps'.theme_ideas = ps.theme_ideas
                /\ accepted' = accepted
                /\ \A i \in 1..Len(calls') : calls'[i][1] # "try_add_theme"
                /\ \A i \in 1..Len(replies') : replies'[i][2] \notin SubmissionReplies ]_vars

\* the private message !help became its author's theme idea
C34_Witness ==
    /\ pc = "handled"
    /\ ev[1] = "pm"
    /\ ev[4] = "yes"
    /\ ev[3] = <<"!", "h", "e", "l", "p">>
    /\ ev[2] \in DOMAIN ps.theme_ideas
    /\ ps.theme_ideas[ev[2]] = ev[3]
    /\ calls = << StoreEntry("try_add_theme", "ok") >>

(***************************************************************************)
(* C35: commands the bot does not know, and messages that are no command   *)
(***************************************************************************)
HelpReplies == {"HelpOrganizer", "HelpJammer", "HelpStandard"}

\* the first word starts with the sigil and is none of the words of the
\* command table
UnknownCommand(words) ==
    /\ words # <<>>
    /\ Head(words[1]) = "!"
    /\ \A c \in CommandTable : c.token # words[1]

\* C35: a guild message whose first word starts with the sigil and is no
\* command of the table is answered with the notice for that word first and
\* with the help message second, the second one sent whenever the handler
\* ends without an error; a guild message whose first word does not start
\* with the sigil gets the help message, and only that, if it mentions the
\* bot, and otherwise no reply and no request.  Neither changes the store or
\* its file.
C35_UnrecognisedAndMentions ==
    [][ (HandlesMessage /\ ev[5] = "no") =>
          /\ UnknownCommand(Words) =>
                /\ replies' # <<>>
                /\ replies'[1] = Reply(ev[2], "UnrecognisedCommand", Words[1], 0)
                /\ Len(replies') <= 2
                /\ Len(replies') = 2 =>
                      replies'[2][1] = ev[2] /\ replies'[2][2] \in HelpReplies
                /\ result' = "Ok" => Len(replies') = 2
                /\ ps' = ps /\ disk' = disk
          /\ (Words # <<>> /\ Head(Words[1]) # "!") =>
                /\ ps' = ps /\ disk' = disk
                /\ ev[4] => /\ Len(replies') <= 1
                            /\ \A i \in 1..Len(replies') :
                                  replies'[i][1] = ev[2] /\ replies'[i][2] \in HelpReplies
                            /\ result' = "Ok" => Len(replies') = 1
                /\ ~ev[4] => replies' = <<>> /\ calls' = <<>> /\ result' = "Ok" ]_vars

\* the notice for !x and then the help message of a Jammer
C35_Witness ==
    /\ pc = "handled"
    /\ ev[1] = "unrecognised"
    /\ replies = << Reply(ev[2], "UnrecognisedCommand", <<"!", "x">>, 0),
                    Reply(ev[2], "HelpJammer", <<>>, 0) >>
    /\ result = "Ok"

(***************************************************************************)
(* C36: the ten commands                                                   *)
(***************************************************************************)
\* the command words of the command surface, the handler of each, and whether
\* the handler takes the words that follow
CommandSurface ==
    { [token |-> <<"!", "h", "e", "l", "p">>,
       handler |-> "help", args |-> FALSE],
      [token |-> <<"!", "c", "r", "e", "a", "t", "e", "c", "h", "a", "n", "n", "e", "l", "s">>,
       handler |-> "createchannels", args |-> TRUE],
      [token |-> <<"!", "r", "e", "n", "a", "m", "e", "c", "h", "a", "n", "n", "e", "l", "s">>,
       handler |-> "renamechannels", args |-> TRUE],
      [token |-> <<"!", "r", "e", "m", "o", "v", "e", "c", "h", "a", "n", "n", "e", "l", "s">>,
       handler |-> "removechannels", args |-> TRUE],
      [token |-> <<"!", "r", "o", "l", "e">>,
       handler |-> "role", args |-> TRUE],
      [token |-> <<"!", "l", "e", "a", "v", "e">>,
       handler |-> "leave", args |-> TRUE],
      [token |-> <<"!", "g", "e", "n", "e", "r", "a", "t", "e", "t", "h", "e", "m", "e">>,
       handler |-> "generatetheme", args |-> FALSE],
      [token |-> <<"!", "s", "h", "o", "w", "a", "l", "l", "t", "h", "e", "m", "e", "s">>,
       handler |-> "showallthemes", args |-> FALSE],
      [token |-> <<"!", "s", "e", "t", "e", "u", "l", "a">>,
       handler |-> "seteula", args |-> TRUE],
      [token |-> <<"!", "s", "e", "t", "r", "o", "l", "e", "a", "s", "s", "i", "g", "n">>,
       handler |-> "setroleassign", args |-> TRUE] }

\* C36: a guild message whose first word is one of the ten command words is
\* handled by the handler of that word, which is given the words that follow
\* if it takes any, and no reply is the notice of an unrecognised command.
C36_TenCommandsDispatched ==
    [][ (HandlesMessage /\ ev[5] = "no" /\ Words # <<>>) =>
          \A c \in CommandSurface :
              c.token = Words[1] =>
                 /\ ev'[1] = c.handler
                 /\ c.args => ev'[3] = Tail(Words)
                 /\ \A i \in 1..Len(replies') : replies'[i][2] # "UnrecognisedCommand" ]_vars

(***************************************************************************)
(* C37: what renamechannels does to the store                              *)
(***************************************************************************)
\* the positions in trace c of the entries of kind op
Positions(c, op) == {i \in 1..Len(c) : c[i][1] = op}

\* the step ends a renamechannels whose caller passed the role check and gave
\* a name without a backtick or a pipe
RenameStep ==
    /\ pc = "idle" /\ pc' = "handled"
    /\ ev'[1] = "renamechannels"
    /\ RoleCheckPassed(CallsOf(calls', "has_role"))
    /\ Len(ev'[3]) > 0
    /\ ~INVALID_REGEX_is_match(join(ev'[3]))

\* C37: when such a renamechannels of a user with a team record ends, the
\* record holds the same three channels and, as its name, the new name as
\* to_markdown_safe returns it; the other records are as before; the store
\* was called once, before every update request, so this is so whatever the
\* three updates answered.  When the user has no record, the store and the
\* file are as before and no update was requested.
C37_RenameStoresNameFirst ==
    [][ RenameStep =>
          LET u == ev'[2]
              before_ == get_channel_info(ps, u)
          IN /\ has_created_channel(ps, u) =>
                  /\ ps' = [ps EXCEPT !.channel_creators[u].game_name =
                                          to_markdown_safe(join(ev'[3]))]
                  /\ get_channel_info(ps', u).category_id = before_.category_id
                  /\ get_channel_info(ps', u).text_id = before_.text_id
                  /\ get_channel_info(ps', u).voice_id = before_.voice_id
                  /\ Cardinality(Positions(calls', "register_channel_creation")) = 1
                  /\ \A i \in Positions(calls', "register_channel_creation"),
                        k \in Positions(calls', "update_channel") : i < k
                  /\ result' = "Ok" => Cardinality(Positions(calls', "update_channel")) = 3
             /\ ~has_created_channel(ps, u) =>
                  /\ ps' = ps /\ disk' = disk
                  /\ Positions(calls', "update_channel") = {}
                  /\ Positions(calls', "register_channel_creation") = {} ]_vars

\* the three updates failed and the record holds the new name
C37_Witness ==
    /\ pc = "handled"
    /\ ev[1] = "renamechannels"
    /\ ev[3] = << <<"-", "-">> >>
    /\ result = "Ok"
    /\ Cardinality(Positions(calls, "update_channel")) = 3
    /\ \A k \in Positions(calls, "update_channel") : calls[k][6] # "category"
    /\ has_created_channel(ps, ev[2])
    /\ get_channel_info(ps, ev[2]).game_name = to_markdown_safe(join(ev[3]))
    /\ disk = to_json(ps)

(***************************************************************************)
(* C38: the roles !role, !leave and the reactions can give and take        *)
(***************************************************************************)
\* the names of the emoji a reaction can carry or the bot attaches
EmojiNames ==
    { e[2] : e \in {x \in ReactionEmoji : x[1] = "Unicode"} }
    \cup { OptionEmoji[i] : i \in 1..Len(OptionEmoji) }

\* name is one of the allow-list, the case of its letters apart
SelfAssignable(name) == \E n \in AllowList : SameButCase(name, n)

\* C38: when !role, !leave or a reaction (added or removed) has been handled,
\* every request to add or remove a role of a member is for the member who
\* sent the command or reaction and for a role of the guild whose name is one
\* of the allow-list, the case of the letters apart: never Organizer, never
\* Jammer.  Every emoji the table has a role for is one of the seven emoji
\* the bot attaches, and its role is one of the allow-list.
C38_OnlySelfAssignableRoles ==
    /\ (pc = "handled" /\ ev[1] \in {"role", "leave", "reaction_add", "reaction_remove"}) =>
          \A i \in 1..Len(MemberRoleRequests(calls)) :
              LET q == MemberRoleRequests(calls)[i]
              IN /\ q[2] = ev[2]
                 /\ RolesAnswered(calls)
                 /\ \E k \in 1..Len(GuildRoles(calls)) : GuildRoles(calls)[k].id = q[3]
                 /\ \A k \in 1..Len(GuildRoles(calls)) :
                       GuildRoles(calls)[k].id = q[3] =>
                          /\ SelfAssignable(GuildRoles(calls)[k].name)
                          /\ ~SameButCase(GuildRoles(calls)[k].name, JAMMER)
                          /\ ~SameButCase(GuildRoles(calls)[k].name,
                                          <<"O", "r", "g", "a", "n", "i", "z", "e", "r">>)
    /\ \A e \in EmojiNames :
          emoji_to_role(e)[1] = "Some" =>
             /\ \E i \in 1..Len(OptionEmoji) : OptionEmoji[i] = e
             /\ SelfAssignable(emoji_to_role(e)[2])

\* a reaction gave its user the Programmer role in a guild that has a Jammer
\* role
C38_Witness ==
    /\ pc = "handled"
    /\ ev[1] = "reaction_add"
    /\ RolesAnswered(calls)
    /\ \E k \in 1..Len(GuildRoles(calls)) : GuildRoles(calls)[k].name = JAMMER
    /\ Len(MemberRoleRequests(calls)) = 1
    /\ MemberRoleRequests(calls)[1][1] = "add_guild_member_role"
    /\ MemberRoleRequests(calls)[1][2] = ev[2]
    /\ \E k \in 1..Len(GuildRoles(calls)) :
          /\ GuildRoles(calls)[k].id = MemberRoleRequests(calls)[1][3]
          /\ GuildRoles(calls)[k].name = PROGRAMMER

(***************************************************************************)
(* C39: a reaction request that fails in !setroleassign                    *)
(***************************************************************************)
\* the handler of ev' is that of !setroleassign and one of its
\* create_reaction requests failed
ReactionFailed ==
    /\ pc = "idle" /\ pc' = "handled"
    /\ ev'[1] = "setroleassign"
    /\ \E i \in 1..Len(calls') : calls'[i][1] = "create_reaction" /\ ~calls'[i][5]

\* C39: when a create_reaction request of !setroleassign fails, it is the
\* last thing the handler does: the requests before it are those of the
\* emoji before it in the order of the seven, all of them attached to the
\* message named, no request and no store call follows it, the store and the
\* file are what they were (the tracked reference with them), no reply is
\* sent and the handler returns the error.
C39_FailedReactionStopsHandler ==
    [][ ReactionFailed =>
        LET r == CallsOf(calls', "create_reaction")
            ch == NamedChannel(ev'[3])
            m == NamedMessage(ev'[3])
        IN /\ calls'[Len(calls')] = r[Len(r)]
           /\ Len(r) <= Len(OptionEmoji)
           /\ \A i \in 1..Len(r) :
                 /\ r[i] = ReactionCall(ch, m, OptionEmoji[i], i < Len(r))
           /\ CallsOf(calls', "set_role_assign") = <<>>
           /\ Reference(ps') = Reference(ps)
           /\ ps' = ps
           /\ disk' = disk
           /\ replies' = <<>>
           /\ result' = "Err" ]_vars

\* the fourth request failed after three emoji were attached, while the store
\* tracks another message than the one named
C39_Witness ==
    /\ pc = "handled" /\ ev[1] = "setroleassign"
    /\ LET r == CallsOf(calls, "create_reaction")
       IN /\ Len(r) = 4
          /\ r[1][5] /\ r[2][5] /\ r[3][5] /\ ~r[4][5]
          /\ calls[Len(calls)] = r[4]
    /\ Reference(ps) # <<0, 0>>
    /\ Reference(ps) # <<NamedChannel(ev[3]), NamedMessage(ev[3])>>
    /\ replies = <<>>
    /\ result = "Err"

=============================================================================
